---- MODULE Spec2Model ----
(***************************************************************************)
(* Model of nfx-stringbuilderpool: the growable buffer                     *)
(* (DynamicStringBuffer), the three-tier buffer pool                       *)
(* (DynamicStringBufferPool: thread-local slot, mutex-guarded shared pool, *)
(* fresh allocation) and the move-only lease (StringBuilderLease).         *)
(*                                                                         *)
(* Granularity.  A thread's step ends at each access to state other        *)
(* threads can see: an atomic statistics counter, the mutex, the shared    *)
(* vector, the heap.  Statements that touch only thread-private state (the *)
(* thread_local slot, the fields of the lease the thread is operating on,  *)
(* a buffer the thread owns exclusively) commute with every step of the    *)
(* other threads and are folded into the neighbouring step.                *)
(***************************************************************************)
EXTENDS Integers, Sequences, FiniteSets, TLC

(***************************************************************************)
(* Bounds of the model                                                     *)
(***************************************************************************)
\* number of threads
NThreads == 2
\* number of lease objects that can exist at the same time
NLeases == 3
\* number of buffers ever allocated in one behaviour
MaxBufs == 3
\* the statistics counters stop an acquire from starting once one reaches it
MaxRequests == 3
\* longest content a holder builds in a buffer
MaxLen == 1
\* number of calls made directly on DynamicStringBuffer objects in one behaviour
MaxCalls == 4
\* DynamicStringBufferPool's constructor parameter maxPoolSize, scaled down
\* (the singleton passes 24, DynamicStringBufferPool.h:264)
MaxPoolSize == 1

(***************************************************************************)
(* Program constants                                                       *)
(***************************************************************************)
STACK_BUFFER_SIZE == 256
m_initialCapacity == 256
m_maximumRetainedCapacity == 2048

NULL == 0
Threads == 1..NThreads
Lease == 1..NLeases
Buf == 1..MaxBufs
\* what a holder appends, and what it reserves
Strs == {<<"a">>}
ReserveSizes == {2048, 2049}
\* arguments of the calls made directly on buffers: strings (the empty one,
\* a short one, the test's "Hello World", one that nearly fills the inline
\* storage), C strings (or a null pointer), characters, sizes and capacities
Hello == <<"H", "e", "l", "l", "o">>
HelloWorld == Hello \o <<" ", "W", "o", "r", "l", "d">>
\* "Hello", ", ", "World", "!"
Pieces == <<Hello, <<",", " ">>, <<"W", "o", "r", "l", "d">>, <<"!">>>>
\* the first k of them, one after the other
Joined(k) == IF k = 0 THEN <<>>
             ELSE IF k = 1 THEN Pieces[1]
             ELSE IF k = 2 THEN Pieces[1] \o Pieces[2]
             ELSE IF k = 3 THEN Pieces[1] \o Pieces[2] \o Pieces[3]
             ELSE Pieces[1] \o Pieces[2] \o Pieces[3] \o Pieces[4]
Long == [i \in 1..250 |-> "x"]
BufStrs == {<<>>, <<"a">>, HelloWorld, Long}
\* a const char*: the null pointer, or a pointer to chars and a terminator
nullptr == [null |-> TRUE, chars |-> <<>>]
CStr(chars) == [null |-> FALSE, chars |-> chars]
CStrs == {nullptr, CStr(<<>>), CStr(<<"a">>)}
Chars == {"c"}
Indexes == {0}
Sizes == {0, 5, 20, 257, 600}
\* what a byte of m_stackBuffer nothing has written to can hold
Junk == {"0", "?"}

Max(a, b) == IF a >= b THEN a ELSE b
Min(S) == CHOOSE x \in S : \A y \in S : x <= y

(***************************************************************************)
(* DynamicStringBuffer: size, capacity, the inline/heap discriminator,     *)
(* m_heapBuffer, the length of the char[] the unique_ptr owns (NULL when   *)
(* it owns none), and data, the bytes written to the active storage so     *)
(* far.  The live content is data[1..m_size]; what lies beyond m_size is   *)
(* stale.  Bytes of the active storage beyond Len(data) were never         *)
(* written: they are zero in a heap block (make_unique value-initialises)  *)
(* and indeterminate in m_stackBuffer, which no constructor initialises.   *)
(* block is the address m_heapBuffer.get() returns: NULL when the pointer  *)
(* is empty, Fresh for a block make_unique has just returned; where        *)
(* buffers are copied and moved (BufferCall) the block gets an address of  *)
(* its own when the call returns (Settle).  Two buffers whose pointers     *)
(* hold the same address read and write the same bytes.                    *)
(***************************************************************************)
\* the result of std::make_unique<char[]>( n ), before its address is known
Fresh == -1

\* DynamicStringBuffer::DynamicStringBuffer()
DynamicStringBuffer ==
    [m_size |-> 0, m_capacity |-> STACK_BUFFER_SIZE, m_onHeap |-> FALSE,
     m_heapBuffer |-> NULL, block |-> NULL, data |-> <<>>]

\* DynamicStringBuffer::DynamicStringBuffer( size_t initialCapacity )
DynamicStringBuffer_sized(initialCapacity) ==
    IF initialCapacity > STACK_BUFFER_SIZE
    THEN [DynamicStringBuffer EXCEPT !.m_heapBuffer = initialCapacity,
                                     !.block = Fresh,
                                     !.m_capacity = initialCapacity,
                                     !.m_onHeap = TRUE]
    ELSE DynamicStringBuffer

Grown_doubled(cap) == cap * 2

\* static_cast<size_t>( m_capacity * GROWTH_FACTOR ), GROWTH_FACTOR = 1.5
Grown(cap) == (cap * 3) \div 2

ensureCapacity_noCopy(b, needed_capacity) ==
    IF needed_capacity <= b.m_capacity
    THEN b
    ELSE LET new_capacity == Max(needed_capacity, Grown(b.m_capacity))
         IN  [b EXCEPT !.m_heapBuffer = new_capacity, !.block = Fresh,
                       !.m_onHeap = TRUE, !.m_capacity = new_capacity,
                       !.data = [i \in 1..b.m_size |-> "0"]]

\* DynamicStringBuffer::ensureCapacity
ensureCapacity(b, needed_capacity) ==
    IF needed_capacity <= b.m_capacity
    THEN b
    ELSE LET new_capacity == Max(needed_capacity, Grown(b.m_capacity))
         IN  IF ~b.m_onHeap /\ new_capacity <= STACK_BUFFER_SIZE
             THEN b
             ELSE \* a new heap block; memcpy of the first m_size bytes only
                  [b EXCEPT !.m_heapBuffer = new_capacity, !.block = Fresh,
                            !.m_onHeap = TRUE, !.m_capacity = new_capacity,
                            !.data = SubSeq(b.data, 1, b.m_size)]

\* ensureCapacity( needed_capacity ) reaches one of its two allocations,
\* lines 318 and 329
Allocates(b, needed_capacity) ==
    /\ needed_capacity > b.m_capacity
    /\ ~(~b.m_onHeap /\ Max(needed_capacity, Grown(b.m_capacity)) <= STACK_BUFFER_SIZE)

ensureCapacity_throws_committed(b, needed_capacity) ==
    [b EXCEPT !.m_onHeap = TRUE,
              !.m_capacity = Max(needed_capacity, Grown(b.m_capacity))]

\* ensureCapacity when that allocation throws std::bad_alloc: make_unique is
\* evaluated before the assignment to m_heapBuffer (318) or to new_buffer
\* (329), and every write of a member comes after it
ensureCapacity_throws(b, needed_capacity) == b

BufClear_trim(b) ==
    IF b.m_onHeap
    THEN [b EXCEPT !.m_size = 0, !.m_capacity = STACK_BUFFER_SIZE + 1,
                   !.m_heapBuffer = STACK_BUFFER_SIZE + 1, !.block = Fresh,
                   !.data = <<>>]
    ELSE [b EXCEPT !.m_size = 0]

BufClear_shrink(b) == DynamicStringBuffer

BufClear_noop(b) == b

\* DynamicStringBuffer::clear
BufClear(b) == [b EXCEPT !.m_size = 0]

reserve_exact(b, newCapacity) ==
    IF newCapacity > b.m_capacity
    THEN ensureCapacity(b, newCapacity)
    ELSE IF b.m_onHeap /\ newCapacity > STACK_BUFFER_SIZE /\ newCapacity >= b.m_size
         THEN [b EXCEPT !.m_capacity = newCapacity, !.m_heapBuffer = newCapacity,
                        !.block = Fresh,
                        !.data = SubSeq(b.data, 1, b.m_size)]
         ELSE b

\* DynamicStringBuffer::reserve
reserve(b, newCapacity) ==
    IF newCapacity > b.m_capacity THEN ensureCapacity(b, newCapacity) ELSE b

append_terminated(b, str) ==
    IF str # <<>>
    THEN LET new_size == b.m_size + Len(str) + 1
             g == ensureCapacity(b, new_size)
         IN  [g EXCEPT !.data = SubSeq(g.data, 1, g.m_size) \o str \o <<"0">>
                                 \o SubSeq(g.data, new_size + 1, Len(g.data)),
                       !.m_size = new_size]
    ELSE b

\* DynamicStringBuffer::append( std::string_view )
append(b, str) ==
    IF str # <<>>
    THEN LET new_size == b.m_size + Len(str)
             g == ensureCapacity(b, new_size)
         IN  [g EXCEPT !.data = SubSeq(g.data, 1, g.m_size) \o str
                                 \o SubSeq(g.data, new_size + 1, Len(g.data)),
                       !.m_size = new_size]
    ELSE b

\* DynamicStringBuffer::append( const char* )
append_cstr(b, str) == IF ~str.null THEN append(b, str.chars) ELSE b

\* DynamicStringBuffer::push_back
push_back(b, c) ==
    LET g == ensureCapacity(b, b.m_size + 1)
    IN  [g EXCEPT !.data = SubSeq(g.data, 1, g.m_size) \o <<c>>
                            \o SubSeq(g.data, g.m_size + 2, Len(g.data)),
                  !.m_size = g.m_size + 1]

\* n bytes of value c
Fill(n, c) == [i \in 1..n |-> c]
\* the value of a zeroed byte
Nul == "0"

resize_fresh(b, newSize, junk) ==
    LET g == ensureCapacity(b, newSize)
    IN  [g EXCEPT !.data = Fill(newSize, junk), !.m_size = newSize]

resize_unchecked(b, newSize, junk) ==
    [b EXCEPT !.data = IF newSize > Len(b.data)
                       THEN b.data \o Fill(newSize - Len(b.data), junk)
                       ELSE b.data,
              !.m_size = newSize]

\* DynamicStringBuffer::resize; junk is what the never-written bytes of
\* m_stackBuffer that come into the live content hold
resize(b, newSize, junk) ==
    LET g == ensureCapacity(b, newSize)
        unwritten == IF g.m_onHeap THEN Nul ELSE junk
    IN  [g EXCEPT !.data = IF newSize > Len(g.data)
                           THEN g.data \o Fill(newSize - Len(g.data), unwritten)
                           ELSE g.data,
                  !.m_size = newSize]

\* DynamicStringBuffer::toString
toString(b) == SubSeq(b.data, 1, b.m_size)

CopyConstruct_shallow(other) ==
    [m_size |-> other.m_size, m_capacity |-> other.m_capacity,
     m_onHeap |-> other.m_onHeap,
     m_heapBuffer |-> IF other.m_onHeap THEN other.m_capacity ELSE NULL,
     block |-> other.block,
     data |-> other.data]

\* DynamicStringBuffer( const DynamicStringBuffer& other ): the new object
CopyConstruct(other) ==
    [m_size |-> other.m_size, m_capacity |-> other.m_capacity,
     m_onHeap |-> other.m_onHeap,
     m_heapBuffer |-> IF other.m_onHeap THEN other.m_capacity ELSE NULL,
     block |-> IF other.m_onHeap THEN Fresh ELSE NULL,
     data |-> SubSeq(other.data, 1, other.m_size)]

MovedFrom_keepsCapacity(other) ==
    [m_size |-> 0, m_capacity |-> other.m_capacity, m_onHeap |-> FALSE,
     m_heapBuffer |-> NULL, block |-> NULL, data |-> <<>>]

\* what a buffer is left as once it has been moved from, lines 95-97 and
\* 149-151: its unique_ptr is empty and m_stackBuffer is active again, with
\* whatever it held
MovedFrom(other) ==
    [m_size |-> 0, m_capacity |-> STACK_BUFFER_SIZE, m_onHeap |-> FALSE,
     m_heapBuffer |-> NULL, block |-> NULL, data |-> <<>>]

\* DynamicStringBuffer( DynamicStringBuffer&& other ): the new object and
\* what is left of other
BufferMoveConstruct(other) ==
    [this |-> [m_size |-> other.m_size, m_capacity |-> other.m_capacity,
               m_onHeap |-> other.m_onHeap, m_heapBuffer |-> other.m_heapBuffer,
               block |-> other.block,
               data |-> IF other.m_onHeap THEN other.data
                        ELSE SubSeq(other.data, 1, other.m_size)],
     other |-> MovedFrom(other)]

\* operator=( const DynamicStringBuffer& other ) for this # &other
CopyAssign(this, other) ==
    LET n == other.m_size
    IN  IF other.m_onHeap
        THEN IF ~this.m_onHeap \/ this.m_capacity < other.m_capacity
             THEN [m_size |-> n, m_capacity |-> other.m_capacity, m_onHeap |-> TRUE,
                   m_heapBuffer |-> other.m_capacity, block |-> Fresh,
                   data |-> SubSeq(other.data, 1, n)]
             ELSE [this EXCEPT !.m_size = n,
                               !.data = SubSeq(other.data, 1, n)
                                        \o SubSeq(this.data, n + 1, Len(this.data))]
        ELSE [m_size |-> n, m_capacity |-> STACK_BUFFER_SIZE, m_onHeap |-> FALSE,
              m_heapBuffer |-> NULL, block |-> NULL,
              data |-> IF this.m_onHeap
                       THEN SubSeq(other.data, 1, n)
                       ELSE SubSeq(other.data, 1, n)
                            \o SubSeq(this.data, n + 1, Len(this.data))]

\* operator=( DynamicStringBuffer&& other ) for this # &other: this and
\* what is left of other
MoveAssign(this, other) ==
    [this |-> [m_size |-> other.m_size, m_capacity |-> other.m_capacity,
               m_onHeap |-> other.m_onHeap, m_heapBuffer |-> other.m_heapBuffer,
               block |-> other.block,
               data |-> IF other.m_onHeap THEN other.data
                        ELSE IF this.m_onHeap
                        THEN SubSeq(other.data, 1, other.m_size)
                        ELSE SubSeq(other.data, 1, other.m_size)
                             \o SubSeq(this.data, other.m_size + 1, Len(this.data))],
     other |-> MovedFrom(other)]

(***************************************************************************)
(* State                                                                   *)
(***************************************************************************)
VARIABLES
    heap,            \* every DynamicStringBuffer object: st is "unalloc", "live" or "freed"
    t_cachedBuffer,  \* thread_local DynamicStringBuffer* t_cachedBuffer, per thread
    m_pool,          \* std::vector<DynamicStringBuffer*> m_pool
    m_maxPoolSize,   \* const size_t m_maxPoolSize, set by the constructor
    m_mutex,         \* std::mutex m_mutex: NULL, or the thread holding it
    m_stats,         \* PoolStatistics: four atomic counters
    leases,          \* the StringBuilderLease objects: st is "none" or "live"
    pc,              \* where each thread is inside the call it is executing
    frame,           \* the locals of that call
    ghost            \* history, read by the properties only:
                     \*   outstanding[b]: hand-outs of b by lease() minus calls of
                     \*                   returnToPool( b )
                     \*   raced: a reset() has overlapped an acquire
                     \*   acquires: calls of get() that have returned since
                     \*             totalRequests was last stored to
                     \*   calls: calls made directly on buffer objects
                     \*   pushed: the buffers stored in the shared pool, in the
                     \*           order in which returnToPool stored them

vars == <<heap, t_cachedBuffer, m_pool, m_maxPoolSize, m_mutex, m_stats, leases, pc, frame,
          ghost>>

NoLease == [st |-> "none", m_buffer |-> NULL, m_valid |-> FALSE]
NoStats == [threadLocalHits |-> 0, dynamicStringBufferPoolHits |-> 0,
            newAllocations |-> 0, totalRequests |-> 0]
\* ref: the buffer a lease call returns; count: size()'s count and clear()'s
\* clearedCount; snap: the counters stats() has loaded; total, hits: hitRate()'s
\* locals; hitRate: its result hits / total as a fraction
\* for a call on a buffer (the buffer is ref), count: its size_t argument, arg:
\* its string or character argument
Frame(op, l, other) ==
    [op |-> op, lease |-> l, other |-> other, ref |-> NULL, count |-> 0,
     snap |-> NoStats, total |-> 0, hits |-> 0, hitRate |-> [num |-> 0, den |-> 1],
     arg |-> nullptr]
NoFrame == Frame("none", NULL, NULL)
Unalloc == [st |-> "unalloc", why |-> "", buf |-> DynamicStringBuffer]

\* the program once the pool has been constructed with room for maxPoolSize
\* buffers in m_pool
Constructed(maxPoolSize) ==
    /\ heap = [b \in Buf |-> Unalloc]
    /\ t_cachedBuffer = [t \in Threads |-> NULL]
    /\ m_pool = <<>>
    /\ m_maxPoolSize = maxPoolSize
    /\ m_mutex = NULL
    /\ m_stats = NoStats
    /\ leases = [l \in Lease |-> NoLease]
    /\ pc = [t \in Threads |-> "idle"]
    /\ frame = [t \in Threads |-> NoFrame]
    /\ ghost = [outstanding |-> [b \in Buf |-> 0], raced |-> FALSE, acquires |-> 0,
                calls |-> 0, pushed |-> <<>>]

Init == Constructed(MaxPoolSize)
\* the same with room for one buffer more
InitWide == Constructed(MaxPoolSize + 1)


(***************************************************************************)
(* Helpers on the state                                                    *)
(***************************************************************************)
\* a lease object some thread is in the middle of operating on
Busy(l) == \E t \in Threads : pc[t] # "idle" /\ (frame[t].lease = l \/ frame[t].other = l)
FreeLeaseSlots == {l \in Lease : leases[l].st = "none" /\ ~Busy(l)}
UnallocBufs == {b \in Buf : heap[b].st = "unalloc"}
\* threads between get()'s totalRequests.fetch_add and its tier counter's
InGet == {t \in Threads : pc[t] \in {"get_slot", "get_lock", "get_cs", "get_new"}}
\* threads between the first and the last store of PoolStatistics::reset
InReset == {t \in Threads : pc[t] \in {"reset_2", "reset_3", "reset_4"}}
Range(s) == {s[i] : i \in DOMAIN s}

\* the call thread t is in returns to code that keeps no result of it
Return(t) ==
    /\ pc' = [pc EXCEPT ![t] = "idle"]
    /\ frame' = [frame EXCEPT ![t] = NoFrame]

Bump_lost(field) ==
    IF field = "newAllocations" THEN m_stats ELSE [m_stats EXCEPT ![field] = @ + 1]

\* m_stats.<field>.fetch_add( 1, std::memory_order_relaxed )
Bump(field) == [m_stats EXCEPT ![field] = @ + 1]

\* StringBuilderLease::StringBuilderLease( DynamicStringBuffer* buffer )
StringBuilderLease(buffer) == [st |-> "live", m_buffer |-> buffer, m_valid |-> TRUE]
\* a lease after std::exchange( m_buffer, nullptr ), std::exchange( m_valid, false )
Disposed == [st |-> "live", m_buffer |-> NULL, m_valid |-> FALSE]

MoveConstruct_copy(L, dst, other) ==
    [L EXCEPT ![dst] = [st |-> "live", m_buffer |-> L[other].m_buffer,
                        m_valid |-> L[other].m_valid]]

\* StringBuilderLease::StringBuilderLease( StringBuilderLease&& other )
MoveConstruct(L, dst, other) ==
    [L EXCEPT ![dst] = [st |-> "live", m_buffer |-> L[other].m_buffer,
                        m_valid |-> L[other].m_valid],
              ![other] = Disposed]

Epilogue_swap(L, l, op, other) ==
    IF op = "direct" THEN L
    ELSE IF op = "dtor"
    THEN [L EXCEPT ![l] = NoLease]
    ELSE [L EXCEPT ![l] = L[other], ![other] = L[l]]

\* what follows dispose() in its caller: the destructor ends the object's life,
\* operator= takes the other lease's fields (StringBuilderPool.inl:201-202), a
\* direct call of returnToPool has no lease
Epilogue(L, l, op, other) ==
    IF op = "direct" THEN L
    ELSE IF op = "dtor"
    THEN [L EXCEPT ![l] = NoLease]
    ELSE [L EXCEPT ![l] = [st |-> "live", m_buffer |-> L[other].m_buffer,
                           m_valid |-> L[other].m_valid],
                   ![other] = Disposed]

\* delete buffer; why records which statement deleted it.  Deleting what is
\* not a live object (a second delete of the same pointer) is undefined
\* behaviour, recorded as such
Delete(H, b, why) ==
    [H EXCEPT ![b] = [st |-> IF H[b].st = "live" THEN "freed" ELSE "undefined",
                      why |-> why, buf |-> DynamicStringBuffer]]

Lease_buffer_unchecked(lease) == [threw |-> FALSE, ref |-> lease.m_buffer]

\* StringBuilderLease::create: throwInvalidOperation() unless m_valid
Lease_create(lease) ==
    IF ~lease.m_valid THEN [threw |-> TRUE, ref |-> NULL]
    ELSE [threw |-> FALSE, ref |-> lease.m_buffer]

\* StringBuilderLease::buffer
Lease_buffer(lease) ==
    IF ~lease.m_valid THEN [threw |-> TRUE, ref |-> NULL]
    ELSE [threw |-> FALSE, ref |-> lease.m_buffer]

\* StringBuilderLease::toString
Lease_toString(lease) ==
    IF ~lease.m_valid THEN [threw |-> TRUE, ref |-> NULL]
    ELSE [threw |-> FALSE, ref |-> lease.m_buffer]

(***************************************************************************)
(* StringBuilderPool::lease = StringBuilderLease( pool.get() )             *)
(***************************************************************************)
\* the sequence s with b taken out
Without(s, b) == SelectSeq(s, LAMBDA x : x # b)

\* the return of get() and the construction of the lease from it
HandOut(t, b) ==
    /\ leases' = [leases EXCEPT ![frame[t].lease] = StringBuilderLease(b)]
    /\ ghost' = [ghost EXCEPT !.outstanding[b] = @ + 1, !.raced = @ \/ InReset # {},
                             !.acquires = @ + 1, !.pushed = Without(@, b)]
    /\ pc' = [pc EXCEPT ![t] = "idle"]
    /\ frame' = [frame EXCEPT ![t] = NoFrame]

get_begin_lostUpdate(t) ==
    /\ pc[t] = "idle"
    /\ FreeLeaseSlots # {}
    /\ Cardinality(UnallocBufs) > Cardinality(InGet)
    /\ \A f \in DOMAIN m_stats : m_stats[f] < MaxRequests
    /\ m_stats' = IF InGet # {} THEN m_stats ELSE Bump("totalRequests")
    /\ pc' = [pc EXCEPT ![t] = "get_slot"]
    /\ frame' = [frame EXCEPT ![t] = Frame("lease", Min(FreeLeaseSlots), NULL)]
    /\ ghost' = [ghost EXCEPT !.raced = @ \/ InReset # {}]
    /\ UNCHANGED <<heap, t_cachedBuffer, m_pool, m_maxPoolSize, m_mutex, leases>>

\* get(), line 59: totalRequests.fetch_add( 1 )
get_entry(t) ==
    /\ pc[t] = "idle"
    /\ FreeLeaseSlots # {}
    /\ \A f \in DOMAIN m_stats : m_stats[f] < MaxRequests
    /\ m_stats' = Bump("totalRequests")
    /\ pc' = [pc EXCEPT ![t] = "get_slot"]
    /\ frame' = [frame EXCEPT ![t] = Frame("lease", Min(FreeLeaseSlots), NULL)]
    /\ ghost' = [ghost EXCEPT !.raced = @ \/ InReset # {}]
    /\ UNCHANGED <<heap, t_cachedBuffer, m_pool, m_maxPoolSize, m_mutex, leases>>

\* a call of get() for which a buffer is left to allocate, should the call come
\* to allocate one
get_begin(t) ==
    /\ Cardinality(UnallocBufs) > Cardinality(InGet)
    /\ get_entry(t)

get_slot_keep(t) ==
    /\ pc[t] = "get_slot"
    /\ IF t_cachedBuffer[t] # NULL
       THEN LET b == t_cachedBuffer[t]
            IN  /\ m_stats' = Bump("threadLocalHits")
                /\ heap' = [heap EXCEPT ![b].buf = BufClear(@)]
                /\ HandOut(t, b)
                /\ UNCHANGED <<t_cachedBuffer, m_pool, m_maxPoolSize, m_mutex>>
       ELSE /\ pc' = [pc EXCEPT ![t] = "get_lock"]
            /\ UNCHANGED <<heap, t_cachedBuffer, m_pool, m_maxPoolSize, m_mutex, m_stats, leases,
                           frame, ghost>>

get_slot_uncounted(t) ==
    /\ pc[t] = "get_slot"
    /\ IF t_cachedBuffer[t] # NULL
       THEN LET b == t_cachedBuffer[t]
            IN  /\ t_cachedBuffer' = [t_cachedBuffer EXCEPT ![t] = NULL]
                /\ heap' = [heap EXCEPT ![b].buf = BufClear(@)]
                /\ HandOut(t, b)
                /\ UNCHANGED <<m_pool, m_maxPoolSize, m_mutex, m_stats>>
       ELSE /\ pc' = [pc EXCEPT ![t] = "get_lock"]
            /\ UNCHANGED <<heap, t_cachedBuffer, m_pool, m_maxPoolSize, m_mutex, m_stats, leases,
                           frame, ghost>>

get_slot_locked(t) ==
    /\ pc[t] = "get_slot"
    /\ m_mutex = NULL
    /\ IF t_cachedBuffer[t] # NULL
       THEN LET b == t_cachedBuffer[t]
            IN  /\ m_stats' = Bump("threadLocalHits")
                /\ t_cachedBuffer' = [t_cachedBuffer EXCEPT ![t] = NULL]
                /\ heap' = [heap EXCEPT ![b].buf = BufClear(@)]
                /\ HandOut(t, b)
                /\ UNCHANGED <<m_pool, m_maxPoolSize, m_mutex>>
       ELSE /\ pc' = [pc EXCEPT ![t] = "get_lock"]
            /\ UNCHANGED <<heap, t_cachedBuffer, m_pool, m_maxPoolSize, m_mutex, m_stats, leases,
                           frame, ghost>>

\* get(), lines 61-69: the thread-local tier
get_slot(t) ==
    /\ pc[t] = "get_slot"
    /\ IF t_cachedBuffer[t] # NULL
       THEN LET b == t_cachedBuffer[t]
            IN  /\ m_stats' = Bump("threadLocalHits")
                /\ t_cachedBuffer' = [t_cachedBuffer EXCEPT ![t] = NULL]
                /\ heap' = [heap EXCEPT ![b].buf = BufClear(@)]
                /\ HandOut(t, b)
                /\ UNCHANGED <<m_pool, m_maxPoolSize, m_mutex>>
       ELSE /\ pc' = [pc EXCEPT ![t] = "get_lock"]
            /\ UNCHANGED <<heap, t_cachedBuffer, m_pool, m_maxPoolSize, m_mutex, m_stats, leases,
                           frame, ghost>>

get_lock_noWait(t) ==
    /\ pc[t] = "get_lock"
    /\ m_mutex' = t
    /\ pc' = [pc EXCEPT ![t] = "get_cs"]
    /\ UNCHANGED <<heap, t_cachedBuffer, m_pool, m_maxPoolSize, m_stats, leases, frame, ghost>>

\* get(), line 74: std::lock_guard lock{ m_mutex }
get_lock(t) ==
    /\ pc[t] = "get_lock"
    /\ m_mutex = NULL
    /\ m_mutex' = t
    /\ pc' = [pc EXCEPT ![t] = "get_cs"]
    /\ UNCHANGED <<heap, t_cachedBuffer, m_pool, m_maxPoolSize, m_stats, leases, frame, ghost>>

get_cs_skip(t) ==
    /\ pc[t] = "get_cs"
    /\ m_mutex' = NULL
    /\ pc' = [pc EXCEPT ![t] = "get_new"]
    /\ UNCHANGED <<heap, t_cachedBuffer, m_pool, m_maxPoolSize, m_stats, leases, frame, ghost>>

get_cs_fifo(t) ==
    /\ pc[t] = "get_cs"
    /\ m_mutex' = NULL
    /\ IF m_pool # <<>>
       THEN LET b == m_pool[1]
            IN  /\ m_stats' = Bump("dynamicStringBufferPoolHits")
                /\ m_pool' = Tail(m_pool)
                /\ UNCHANGED m_maxPoolSize
                /\ heap' = [heap EXCEPT ![b].buf = BufClear(@)]
                /\ HandOut(t, b)
                /\ UNCHANGED t_cachedBuffer
       ELSE /\ pc' = [pc EXCEPT ![t] = "get_new"]
            /\ UNCHANGED <<heap, t_cachedBuffer, m_pool, m_maxPoolSize, m_stats, leases, frame, ghost>>

\* get(), lines 75-81 and 89-94: the shared tier, under the mutex
get_cs(t) ==
    /\ pc[t] = "get_cs"
    /\ m_mutex' = NULL
    /\ IF m_pool # <<>>
       THEN LET b == m_pool[Len(m_pool)]
            IN  /\ m_stats' = Bump("dynamicStringBufferPoolHits")
                /\ m_pool' = SubSeq(m_pool, 1, Len(m_pool) - 1)
                /\ UNCHANGED m_maxPoolSize
                /\ heap' = [heap EXCEPT ![b].buf = BufClear(@)]
                /\ HandOut(t, b)
                /\ UNCHANGED t_cachedBuffer
       ELSE /\ pc' = [pc EXCEPT ![t] = "get_new"]
            /\ UNCHANGED <<heap, t_cachedBuffer, m_pool, m_maxPoolSize, m_stats, leases, frame, ghost>>

\* get(), lines 83-88: a fresh buffer
get_new(t) ==
    /\ pc[t] = "get_new"
    /\ LET b == Min(UnallocBufs)
       IN  /\ m_stats' = Bump("newAllocations")
           /\ heap' = [heap EXCEPT ![b] =
                         [st |-> "live", why |-> "",
                          buf |-> reserve(DynamicStringBuffer, m_initialCapacity)]]
           /\ HandOut(t, b)
    /\ UNCHANGED <<t_cachedBuffer, m_pool, m_maxPoolSize, m_mutex>>

(***************************************************************************)
(* StringBuilderLease::dispose and DynamicStringBufferPool::returnToPool   *)
(***************************************************************************)
Oversized_never(b) == FALSE

Oversized_bySize(b) == heap[b].buf.m_size > m_maximumRetainedCapacity

\* returnToPool, line 104: buffer->capacity() > m_maximumRetainedCapacity
Oversized(b) == heap[b].buf.m_capacity > m_maximumRetainedCapacity

PoolHasRoom_always == TRUE

PoolHasRoom_orEqual == Len(m_pool) <= m_maxPoolSize

\* returnToPool, line 118: m_pool.size() < m_maxPoolSize
PoolHasRoom == Len(m_pool) < m_maxPoolSize

returnToPool_fallsThrough(t, b, l, op, other) ==
    /\ ghost' = IF b = NULL THEN ghost ELSE [ghost EXCEPT !.outstanding[b] = @ - 1]
    /\ IF b = NULL
       THEN /\ leases' = Epilogue(leases, l, op, other)
            /\ Return(t)
            /\ UNCHANGED <<heap, t_cachedBuffer>>
       ELSE IF t_cachedBuffer[t] = NULL
       THEN /\ heap' = IF Oversized(b) THEN Delete(heap, b, "oversized") ELSE heap
            /\ t_cachedBuffer' = [t_cachedBuffer EXCEPT ![t] = b]
            /\ leases' = Epilogue(leases, l, op, other)
            /\ Return(t)
       ELSE IF Oversized(b)
       THEN /\ heap' = Delete(heap, b, "oversized")
            /\ leases' = Epilogue(leases, l, op, other)
            /\ Return(t)
            /\ UNCHANGED t_cachedBuffer
       ELSE /\ pc' = [pc EXCEPT ![t] = "ret_lock"]
            /\ frame' = [frame EXCEPT ![t] = Frame(op, l, other)]
            /\ UNCHANGED <<heap, t_cachedBuffer, leases>>
    /\ UNCHANGED <<m_pool, m_maxPoolSize, m_mutex, m_stats>>

returnToPool_slotFirst(t, b, l, op, other) ==
    /\ ghost' = IF b = NULL THEN ghost ELSE [ghost EXCEPT !.outstanding[b] = @ - 1]
    /\ IF b = NULL
       THEN /\ leases' = Epilogue(leases, l, op, other)
            /\ Return(t)
            /\ UNCHANGED <<heap, t_cachedBuffer>>
       ELSE IF t_cachedBuffer[t] = NULL
       THEN /\ t_cachedBuffer' = [t_cachedBuffer EXCEPT ![t] = b]
            /\ leases' = Epilogue(leases, l, op, other)
            /\ Return(t)
            /\ UNCHANGED heap
       ELSE IF Oversized(b)
       THEN /\ heap' = Delete(heap, b, "oversized")
            /\ leases' = Epilogue(leases, l, op, other)
            /\ Return(t)
            /\ UNCHANGED t_cachedBuffer
       ELSE /\ pc' = [pc EXCEPT ![t] = "ret_lock"]
            /\ frame' = [frame EXCEPT ![t] = Frame(op, l, other)]
            /\ UNCHANGED <<heap, t_cachedBuffer, leases>>
    /\ UNCHANGED <<m_pool, m_maxPoolSize, m_mutex, m_stats>>

\* returnToPool( b ), lines 99-115, called by dispose() of lease l (or directly,
\* op = "direct"); dispose's writes m_buffer = nullptr, m_valid = false and the
\* rest of its caller follow the return
returnToPool(t, b, l, op, other) ==
    /\ ghost' = IF b = NULL THEN ghost ELSE [ghost EXCEPT !.outstanding[b] = @ - 1]
    /\ IF b = NULL
       THEN /\ leases' = Epilogue(leases, l, op, other)
            /\ Return(t)
            /\ UNCHANGED <<heap, t_cachedBuffer>>
       ELSE IF Oversized(b)
       THEN /\ heap' = Delete(heap, b, "oversized")
            /\ leases' = Epilogue(leases, l, op, other)
            /\ Return(t)
            /\ UNCHANGED t_cachedBuffer
       ELSE IF t_cachedBuffer[t] = NULL
       THEN /\ t_cachedBuffer' = [t_cachedBuffer EXCEPT ![t] = b]
            /\ leases' = Epilogue(leases, l, op, other)
            /\ Return(t)
            /\ UNCHANGED heap
       ELSE /\ pc' = [pc EXCEPT ![t] = "ret_lock"]
            /\ frame' = [frame EXCEPT ![t] = Frame(op, l, other)]
            /\ UNCHANGED <<heap, t_cachedBuffer, leases>>
    /\ UNCHANGED <<m_pool, m_maxPoolSize, m_mutex, m_stats>>

dispose_leak(t, l, op, other) ==
    /\ leases' = Epilogue(leases, l, op, other)
    /\ Return(t)
    /\ UNCHANGED <<heap, t_cachedBuffer, m_pool, m_maxPoolSize, m_mutex, m_stats, ghost>>

\* StringBuilderLease::dispose
dispose(t, l, op, other) ==
    IF leases[l].m_valid
    THEN returnToPool(t, leases[l].m_buffer, l, op, other)
    ELSE /\ leases' = Epilogue(leases, l, op, other)
         /\ Return(t)
         /\ UNCHANGED <<heap, t_cachedBuffer, m_pool, m_maxPoolSize, m_mutex, m_stats, ghost>>

\* returnToPool, line 117: std::lock_guard lock{ m_mutex }
ret_lock(t) ==
    /\ pc[t] = "ret_lock"
    /\ m_mutex = NULL
    /\ m_mutex' = t
    /\ pc' = [pc EXCEPT ![t] = "ret_cs"]
    /\ UNCHANGED <<heap, t_cachedBuffer, m_pool, m_maxPoolSize, m_stats, leases, frame, ghost>>

ret_cs_retry(t) ==
    /\ pc[t] = "ret_cs"
    /\ m_mutex' = NULL
    /\ IF PoolHasRoom
       THEN LET l == frame[t].lease
                b == leases[l].m_buffer
            IN  /\ m_pool' = Append(m_pool, b)
                /\ ghost' = [ghost EXCEPT !.pushed = Append(@, b)]
                /\ leases' = Epilogue(leases, l, frame[t].op, frame[t].other)
                /\ pc' = [pc EXCEPT ![t] = "idle"]
                /\ frame' = [frame EXCEPT ![t] = NoFrame]
                /\ UNCHANGED <<heap, m_maxPoolSize, t_cachedBuffer, m_stats>>
       ELSE /\ pc' = [pc EXCEPT ![t] = "ret_lock"]
            /\ UNCHANGED <<heap, t_cachedBuffer, m_pool, m_maxPoolSize, m_stats, leases, frame,
                           ghost>>

\* returnToPool, lines 118-126, then the rest of dispose() and of its caller
ret_cs(t) ==
    /\ pc[t] = "ret_cs"
    /\ LET l == frame[t].lease
           b == leases[l].m_buffer
       IN  /\ IF PoolHasRoom
              THEN /\ m_pool' = Append(m_pool, b)
                   /\ ghost' = [ghost EXCEPT !.pushed = Append(@, b)]
                   /\ UNCHANGED <<heap, m_maxPoolSize>>
              ELSE /\ heap' = Delete(heap, b, "full")
                   /\ UNCHANGED <<m_pool, m_maxPoolSize, ghost>>
           /\ leases' = Epilogue(leases, l, frame[t].op, frame[t].other)
    /\ m_mutex' = NULL
    /\ pc' = [pc EXCEPT ![t] = "idle"]
    /\ frame' = [frame EXCEPT ![t] = NoFrame]
    /\ UNCHANGED <<t_cachedBuffer, m_stats>>

\* DynamicStringBufferPool::returnToPool( nullptr ), called on the pool itself
return_null(t) ==
    /\ pc[t] = "idle"
    /\ returnToPool(t, NULL, NULL, "direct", NULL)

(***************************************************************************)
(* What the holder of a lease does with it                                 *)
(***************************************************************************)
\* StringBuilderLease::~StringBuilderLease
lease_destroy(t, l) ==
    /\ pc[t] = "idle"
    /\ leases[l].st = "live"
    /\ ~Busy(l)
    /\ dispose(t, l, "dtor", NULL)

\* StringBuilderLease fresh{ std::move( other ) }
lease_move(t, other) ==
    /\ pc[t] = "idle"
    /\ leases[other].st = "live"
    /\ ~Busy(other)
    /\ FreeLeaseSlots # {}
    /\ leases' = MoveConstruct(leases, Min(FreeLeaseSlots), other)
    /\ UNCHANGED <<heap, t_cachedBuffer, m_pool, m_maxPoolSize, m_mutex, m_stats, pc, frame, ghost>>

\* StringBuilderLease::operator=( StringBuilderLease&& other )
lease_assign(t, l, other) ==
    /\ pc[t] = "idle"
    /\ leases[l].st = "live" /\ leases[other].st = "live"
    /\ ~Busy(l) /\ ~Busy(other)
    /\ IF l # other
       THEN dispose(t, l, "assign", other)
       ELSE UNCHANGED vars

\* a = std::move( b ) as a call: the entry into operator= with this = &l and
\* other = b recorded in the frame
assign_begin(t, l, other) ==
    /\ pc[t] = "idle"
    /\ leases[l].st = "live" /\ leases[other].st = "live"
    /\ ~Busy(l) /\ ~Busy(other)
    /\ pc' = [pc EXCEPT ![t] = "assign"]
    /\ frame' = [frame EXCEPT ![t] = Frame("assign", l, other)]
    /\ UNCHANGED <<heap, t_cachedBuffer, m_pool, m_maxPoolSize, m_mutex, m_stats, leases, ghost>>

assign_body_unguarded(t) ==
    /\ pc[t] = "assign"
    /\ dispose(t, frame[t].lease, "assign", frame[t].other)

\* StringBuilderLease::operator=, lines 198-205; the return of a
\* self-assignment is kept visible as "assigned"
assign_body(t) ==
    /\ pc[t] = "assign"
    /\ IF frame[t].lease # frame[t].other
       THEN dispose(t, frame[t].lease, "assign", frame[t].other)
       ELSE /\ pc' = [pc EXCEPT ![t] = "assigned"]
            /\ UNCHANGED <<heap, t_cachedBuffer, m_pool, m_maxPoolSize, m_mutex, m_stats, leases,
                           frame, ghost>>

\* lease.buffer().append( str ); when buffer() throws nothing is touched
lease_append(t, l, str) ==
    /\ pc[t] = "idle"
    /\ leases[l].st = "live"
    /\ ~Busy(l)
    /\ LET r == Lease_buffer(leases[l])
       IN  IF r.threw
           THEN UNCHANGED heap
           ELSE /\ heap[r.ref].buf.m_size + Len(str) <= MaxLen
                /\ heap' = [heap EXCEPT ![r.ref].buf = append(@, str)]
    /\ UNCHANGED <<t_cachedBuffer, m_pool, m_maxPoolSize, m_mutex, m_stats, leases, pc, frame, ghost>>

\* buffer.append( "Hello" ), buffer.append( ", " ), buffer.append( "World" )
\* and buffer.append( "!" ) or buffer.push_back( '!' ) on auto& buffer =
\* lease.buffer(): the call that comes next for what the buffer holds
greeting_append(t, l, pushed) ==
    /\ pc[t] = "idle"
    /\ leases[l].st = "live"
    /\ ~Busy(l)
    /\ LET r == Lease_buffer(leases[l])
       IN  /\ ~r.threw
           /\ \E k \in 1..Len(Pieces) :
                 /\ toString(heap[r.ref].buf) = Joined(k - 1)
                 /\ pushed => Len(Pieces[k]) = 1
                 /\ heap' = [heap EXCEPT ![r.ref].buf =
                                IF pushed THEN push_back(@, Pieces[k][1])
                                ELSE append(@, Pieces[k])]
    /\ UNCHANGED <<t_cachedBuffer, m_pool, m_maxPoolSize, m_mutex, m_stats, leases, pc, frame, ghost>>

\* lease.buffer().reserve( n )
lease_reserve(t, l, n) ==
    /\ pc[t] = "idle"
    /\ leases[l].st = "live"
    /\ ~Busy(l)
    /\ LET r == Lease_buffer(leases[l])
       IN  IF r.threw
           THEN UNCHANGED heap
           ELSE heap' = [heap EXCEPT ![r.ref].buf = reserve(@, n)]
    /\ UNCHANGED <<t_cachedBuffer, m_pool, m_maxPoolSize, m_mutex, m_stats, leases, pc, frame, ghost>>

\* a call of create(), buffer() or toString() on lease l, up to its return or throw
lease_call(t, l, fn) ==
    /\ pc[t] = "idle"
    /\ leases[l].st = "live"
    /\ ~Busy(l)
    /\ LET r == CASE fn = "create" -> Lease_create(leases[l])
                  [] fn = "buffer" -> Lease_buffer(leases[l])
                  [] fn = "toString" -> Lease_toString(leases[l])
       IN  /\ pc' = [pc EXCEPT ![t] = IF r.threw THEN "threw" ELSE "returned"]
           /\ frame' = [frame EXCEPT ![t] = [Frame(fn, l, NULL) EXCEPT !.ref = r.ref]]
    /\ UNCHANGED <<heap, t_cachedBuffer, m_pool, m_maxPoolSize, m_mutex, m_stats, leases, ghost>>

\* the caller goes on after the return, or after catching the std::runtime_error
call_end(t) ==
    /\ pc[t] \in {"returned", "threw", "assigned"}
    /\ pc' = [pc EXCEPT ![t] = "idle"]
    /\ frame' = [frame EXCEPT ![t] = NoFrame]
    /\ UNCHANGED <<heap, t_cachedBuffer, m_pool, m_maxPoolSize, m_mutex, m_stats, leases, ghost>>

reset_1_onlyClears(t, op) ==
    /\ pc[t] = "idle"
    /\ IF op = "clear"
       THEN /\ pc' = [pc EXCEPT ![t] = "clear_lock"]
            /\ ghost' = [ghost EXCEPT !.acquires = 0]
            /\ UNCHANGED m_stats
       ELSE /\ m_stats' = [m_stats EXCEPT !.threadLocalHits = 0]
            /\ pc' = [pc EXCEPT ![t] = "reset_2"]
            /\ ghost' = [ghost EXCEPT !.raced = @ \/ InGet # {}]
    /\ frame' = [frame EXCEPT ![t] = Frame(op, NULL, NULL)]
    /\ UNCHANGED <<heap, t_cachedBuffer, m_pool, m_maxPoolSize, m_mutex, leases>>

(***************************************************************************)
(* Statistics reset and pool clear                                         *)
(***************************************************************************)
\* PoolStatistics::reset, line 150, entered from StringBuilderPool::resetStats
\* (op = "resetStats") or from StringBuilderPool::clear (op = "clear")
reset_1(t, op) ==
    /\ pc[t] = "idle"
    /\ m_stats' = [m_stats EXCEPT !.threadLocalHits = 0]
    /\ pc' = [pc EXCEPT ![t] = "reset_2"]
    /\ frame' = [frame EXCEPT ![t] = Frame(op, NULL, NULL)]
    /\ ghost' = [ghost EXCEPT !.raced = @ \/ InGet # {}]
    /\ UNCHANGED <<heap, t_cachedBuffer, m_pool, m_maxPoolSize, m_mutex, leases>>

\* PoolStatistics::reset, line 151
reset_2(t) ==
    /\ pc[t] = "reset_2"
    /\ m_stats' = [m_stats EXCEPT !.dynamicStringBufferPoolHits = 0]
    /\ pc' = [pc EXCEPT ![t] = "reset_3"]
    /\ ghost' = [ghost EXCEPT !.raced = @ \/ InGet # {}]
    /\ UNCHANGED <<heap, t_cachedBuffer, m_pool, m_maxPoolSize, m_mutex, leases, frame>>

\* PoolStatistics::reset, line 152
reset_3(t) ==
    /\ pc[t] = "reset_3"
    /\ m_stats' = [m_stats EXCEPT !.newAllocations = 0]
    /\ pc' = [pc EXCEPT ![t] = "reset_4"]
    /\ ghost' = [ghost EXCEPT !.raced = @ \/ InGet # {}]
    /\ UNCHANGED <<heap, t_cachedBuffer, m_pool, m_maxPoolSize, m_mutex, leases, frame>>

\* PoolStatistics::reset, line 153; StringBuilderPool::clear goes on to pool.clear()
reset_4(t) ==
    /\ pc[t] = "reset_4"
    /\ m_stats' = [m_stats EXCEPT !.totalRequests = 0]
    /\ IF frame[t].op = "clear"
       THEN /\ pc' = [pc EXCEPT ![t] = "clear_lock"]
            /\ UNCHANGED frame
       ELSE /\ pc' = [pc EXCEPT ![t] = "idle"]
            /\ frame' = [frame EXCEPT ![t] = NoFrame]
    /\ ghost' = [ghost EXCEPT !.raced = @ \/ InGet # {}, !.acquires = 0]
    /\ UNCHANGED <<heap, t_cachedBuffer, m_pool, m_maxPoolSize, m_mutex, leases>>

\* DynamicStringBufferPool::clear, entered on its own
clear_begin(t) ==
    /\ pc[t] = "idle"
    /\ pc' = [pc EXCEPT ![t] = "clear_lock"]
    /\ frame' = [frame EXCEPT ![t] = Frame("clear", NULL, NULL)]
    /\ UNCHANGED <<heap, t_cachedBuffer, m_pool, m_maxPoolSize, m_mutex, m_stats, leases, ghost>>

\* DynamicStringBufferPool::clear, line 167
clear_lock(t) ==
    /\ pc[t] = "clear_lock"
    /\ m_mutex = NULL
    /\ m_mutex' = t
    /\ pc' = [pc EXCEPT ![t] = "clear_cs"]
    /\ UNCHANGED <<heap, t_cachedBuffer, m_pool, m_maxPoolSize, m_stats, leases, frame, ghost>>

\* size_t n = pool.clear(): a caller that keeps the count clear() returns
clear_call(t) ==
    /\ pc[t] = "idle"
    /\ pc' = [pc EXCEPT ![t] = "clear_lock"]
    /\ frame' = [frame EXCEPT ![t] = Frame("clearedCount", NULL, NULL)]
    /\ UNCHANGED <<heap, t_cachedBuffer, m_pool, m_maxPoolSize, m_mutex, m_stats, leases, ghost>>

\* the return of clear() with clearedCount: kept in the frame of a caller that
\* looks at it, dropped otherwise
ReturnCount(t, clearedCount) ==
    IF frame[t].op = "clearedCount"
    THEN /\ pc' = [pc EXCEPT ![t] = "returned"]
         /\ frame' = [frame EXCEPT ![t].count = clearedCount]
    ELSE Return(t)

clear_cs_allSlots(t) ==
    /\ pc[t] = "clear_cs"
    /\ LET cached == {t_cachedBuffer[u] : u \in Threads} \ {NULL}
           gone == Range(m_pool) \cup cached
       IN  /\ heap' = [b \in Buf |-> IF b \in gone THEN Delete(heap, b, "clear")[b]
                                     ELSE heap[b]]
           /\ ReturnCount(t, Len(m_pool) + Cardinality(cached))
    /\ m_pool' = <<>>
    /\ UNCHANGED m_maxPoolSize
    /\ t_cachedBuffer' = [u \in Threads |-> NULL]
    /\ m_mutex' = NULL
    /\ ghost' = [ghost EXCEPT !.pushed = <<>>]
    /\ UNCHANGED <<m_stats, leases>>

clear_cs_sharedOnly(t) ==
    /\ pc[t] = "clear_cs"
    /\ heap' = [b \in Buf |-> IF b \in Range(m_pool) THEN Delete(heap, b, "clear")[b]
                               ELSE heap[b]]
    /\ ReturnCount(t, Len(m_pool))
    /\ m_pool' = <<>>
    /\ UNCHANGED m_maxPoolSize
    /\ m_mutex' = NULL
    /\ ghost' = [ghost EXCEPT !.pushed = <<>>]
    /\ UNCHANGED <<t_cachedBuffer, m_stats, leases>>

\* DynamicStringBufferPool::clear, lines 169-187
clear_cs(t) ==
    /\ pc[t] = "clear_cs"
    /\ LET gone == Range(m_pool) \cup ({t_cachedBuffer[t]} \ {NULL})
           clearedCount == Len(m_pool) + (IF t_cachedBuffer[t] # NULL THEN 1 ELSE 0)
       IN  /\ heap' = [b \in Buf |-> IF b \in gone THEN Delete(heap, b, "clear")[b]
                                     ELSE heap[b]]
           /\ ReturnCount(t, clearedCount)
    /\ m_pool' = <<>>
    /\ UNCHANGED m_maxPoolSize
    /\ t_cachedBuffer' = [t_cachedBuffer EXCEPT ![t] = NULL]
    /\ m_mutex' = NULL
    /\ ghost' = [ghost EXCEPT !.pushed = <<>>]
    /\ UNCHANGED <<m_stats, leases>>

(***************************************************************************)
(* Thread exit                                                             *)
(***************************************************************************)
\* ThreadLocalCleanup::~ThreadLocalCleanup, lines 25-32
ThreadLocalCleanup(t) ==
    /\ heap' = IF t_cachedBuffer[t] # NULL
               THEN Delete(heap, t_cachedBuffer[t], "exit") ELSE heap
    /\ t_cachedBuffer' = [t_cachedBuffer EXCEPT ![t] = NULL]

\* The thread function of t returns.  t_cleanup (line 33) is named nowhere in
\* the program: an implementation that sets up a thread's thread_local
\* objects when the thread starts runs ~ThreadLocalCleanup at its exit
\* (registered), one that defers the set-up of a thread_local object with a
\* destructor to the object's first use never registers the destructor, and
\* the thread ends with whatever its slot holds still allocated.
thread_exit(t, registered) ==
    /\ pc[t] = "idle"
    /\ pc' = [pc EXCEPT ![t] = "exited"]
    /\ IF registered
       THEN ThreadLocalCleanup(t)
       ELSE UNCHANGED <<heap, t_cachedBuffer>>
    /\ UNCHANGED <<m_pool, m_maxPoolSize, m_mutex, m_stats, leases, frame, ghost>>

(***************************************************************************)
(* Program exit: the function-local static pool of dynamicStringBufferPool *)
(* (DynamicStringBufferPool.h:264) is destroyed after main has returned    *)
(* and the main thread's thread_local objects are gone.                    *)
(***************************************************************************)
\* ~DynamicStringBufferPool, line 45: std::lock_guard lock{ m_mutex }
teardown_lock(t) ==
    /\ pc[t] = "exited"
    /\ m_mutex = NULL
    /\ m_mutex' = t
    /\ pc' = [pc EXCEPT ![t] = "teardown_cs"]
    /\ UNCHANGED <<heap, t_cachedBuffer, m_pool, m_maxPoolSize, m_stats, leases, frame, ghost>>

\* ~DynamicStringBufferPool, lines 46-51: every stored buffer is deleted and
\* the lock released; the process ends with the static destructors, and no
\* thread runs any further
teardown_cs(t) ==
    /\ pc[t] = "teardown_cs"
    /\ heap' = [b \in Buf |-> IF b \in Range(m_pool) THEN Delete(heap, b, "teardown")[b]
                               ELSE heap[b]]
    /\ m_pool' = <<>>
    /\ m_mutex' = NULL
    /\ ghost' = [ghost EXCEPT !.pushed = <<>>]
    /\ pc' = [u \in Threads |-> "ended"]
    /\ UNCHANGED <<t_cachedBuffer, m_maxPoolSize, m_stats, leases, frame>>

(***************************************************************************)
(* StringBuilderPool::stats and PoolStatistics::hitRate.  Every load of an *)
(* atomic counter is a step of its own.                                    *)
(***************************************************************************)
\* the counters in the order stats() loads them, StringBuilderPool.cpp:402-405
StatsOrder == <<"threadLocalHits", "dynamicStringBufferPoolHits", "newAllocations",
                "totalRequests">>
\* the two counters hitRate() adds, line 143
HitCounters == {"threadLocalHits", "dynamicStringBufferPoolHits"}

\* static_cast<double>( hits ) / static_cast<double>( total ), and 0.0, as
\* fractions
Ratio(hits, total) == [num |-> hits, den |-> total]
Zero == [num |-> 0, den |-> 1]

\* stats(), line 402: the first load, into the result being built
stats_begin(t) ==
    /\ pc[t] = "idle"
    /\ pc' = [pc EXCEPT ![t] = "stats_2"]
    /\ frame' = [frame EXCEPT ![t] =
                   [Frame("stats", NULL, NULL) EXCEPT
                       !.snap[StatsOrder[1]] = m_stats[StatsOrder[1]]]]
    /\ UNCHANGED <<heap, t_cachedBuffer, m_pool, m_maxPoolSize, m_mutex, m_stats, leases, ghost>>

\* stats(), lines 403-405: load number i
stats_load(t, i) ==
    /\ pc[t] = IF i = 2 THEN "stats_2" ELSE IF i = 3 THEN "stats_3" ELSE "stats_4"
    /\ pc' = [pc EXCEPT ![t] = IF i = 2 THEN "stats_3" ELSE IF i = 3 THEN "stats_4"
                                ELSE "hitRate_total"]
    /\ frame' = [frame EXCEPT ![t].snap[StatsOrder[i]] = m_stats[StatsOrder[i]]]
    /\ UNCHANGED <<heap, t_cachedBuffer, m_pool, m_maxPoolSize, m_mutex, m_stats, leases, ghost>>

hitRate_total_unchecked(t) ==
    /\ pc[t] = "hitRate_total"
    /\ pc' = [pc EXCEPT ![t] = "hitRate_hits"]
    /\ frame' = [frame EXCEPT ![t].total = m_stats.totalRequests]
    /\ UNCHANGED <<heap, t_cachedBuffer, m_pool, m_maxPoolSize, m_mutex, m_stats, leases, ghost>>

\* hitRate(), lines 138-142: total = totalRequests.load(), 0.0 when it is 0
hitRate_total(t) ==
    /\ pc[t] = "hitRate_total"
    /\ IF m_stats.totalRequests = 0
       THEN /\ pc' = [pc EXCEPT ![t] = "returned"]
            /\ frame' = [frame EXCEPT ![t].hitRate = Zero]
       ELSE /\ pc' = [pc EXCEPT ![t] = "hitRate_hits"]
            /\ frame' = [frame EXCEPT ![t].total = m_stats.totalRequests]
    /\ UNCHANGED <<heap, t_cachedBuffer, m_pool, m_maxPoolSize, m_mutex, m_stats, leases, ghost>>

\* hitRate(), line 143: the first of the two loads of the sum; the operands of
\* + are evaluated in either order
hitRate_hits(t, first) ==
    /\ pc[t] = "hitRate_hits"
    /\ pc' = [pc EXCEPT ![t] = "hitRate_sum"]
    /\ frame' = [frame EXCEPT ![t].hits = m_stats[first],
                               ![t].op = CHOOSE f \in HitCounters : f # first]
    /\ UNCHANGED <<heap, t_cachedBuffer, m_pool, m_maxPoolSize, m_mutex, m_stats, leases, ghost>>

\* hitRate(), lines 143-145: the second load, the sum and the division;
\* stats() returns
hitRate_sum(t) ==
    /\ pc[t] = "hitRate_sum"
    /\ pc' = [pc EXCEPT ![t] = "returned"]
    /\ LET hits == frame[t].hits + m_stats[frame[t].op]
       IN  frame' = [frame EXCEPT ![t].hits = hits,
                                  ![t].op = "stats",
                                  ![t].hitRate = Ratio(hits, frame[t].total)]
    /\ UNCHANGED <<heap, t_cachedBuffer, m_pool, m_maxPoolSize, m_mutex, m_stats, leases, ghost>>

(***************************************************************************)
(* DynamicStringBufferPool::size                                           *)
(***************************************************************************)
size_allSlots(t) ==
    Len(m_pool) + Cardinality({u \in Threads : t_cachedBuffer[u] # NULL})

\* size(), lines 193-201: what thread t computes under the mutex
size(t) == Len(m_pool) + (IF t_cachedBuffer[t] # NULL THEN 1 ELSE 0)

\* size(), line 191: std::lock_guard lock{ m_mutex }
size_lock(t) ==
    /\ pc[t] = "idle"
    /\ m_mutex = NULL
    /\ m_mutex' = t
    /\ pc' = [pc EXCEPT ![t] = "size_cs"]
    /\ frame' = [frame EXCEPT ![t] = Frame("size", NULL, NULL)]
    /\ UNCHANGED <<heap, t_cachedBuffer, m_pool, m_maxPoolSize, m_stats, leases, ghost>>

\* size(), lines 193-202: the count, the unlock and the return of the count
size_cs(t) ==
    /\ pc[t] = "size_cs"
    /\ m_mutex' = NULL
    /\ pc' = [pc EXCEPT ![t] = "returned"]
    /\ frame' = [frame EXCEPT ![t].count = size(t)]
    /\ UNCHANGED <<heap, t_cachedBuffer, m_pool, m_maxPoolSize, m_stats, leases, ghost>>

(***************************************************************************)
(* Calls made directly on DynamicStringBuffer objects.  A buffer is reached *)
(* through lease.buffer() or is a copy or a move of one; nothing else       *)
(* touches it during the call, so each call is one step.                    *)
(***************************************************************************)
LiveBufs == {b \in Buf : heap[b].st = "live"}

\* the addresses of the heap blocks the buffers of H point to
Blocks(H) == {H[c].buf.block : c \in {x \in Buf : H[x].st = "live"}} \ {NULL, Fresh}

\* the allocator returns an address no live block has
NewBlock(H) == Min((1..MaxBufs) \ Blocks(H))

\* the heap once the call on buffer b that made it H has returned: the block
\* the call allocated has its address, and the bytes the call wrote through
\* b's pointer are what every buffer pointing to the same block reads
Settle(H, b) ==
    LET A == [c \in Buf |-> IF H[c].buf.block = Fresh
                            THEN [H[c] EXCEPT !.buf.block = NewBlock(H)]
                            ELSE H[c]]
    IN  [c \in Buf |-> IF /\ c # b
                          /\ A[c].st = "live"
                          /\ A[c].buf.block # NULL
                          /\ A[c].buf.block = A[b].buf.block
                       THEN [A[c] EXCEPT !.buf.data = A[b].buf.data]
                       ELSE A[c]]

\* a call op on buffer b (with the other buffer and the arguments it was
\* given) runs to its return and leaves the heap as H
BufferCall(t, op, b, other, count, arg, H) ==
    /\ pc[t] = "idle"
    /\ ghost.calls < MaxCalls
    /\ heap' = Settle(H, b)
    /\ pc' = [pc EXCEPT ![t] = "returned"]
    /\ frame' = [frame EXCEPT ![t] =
                   [Frame(op, NULL, other) EXCEPT !.ref = b, !.count = count,
                                                 !.arg = arg]]
    /\ ghost' = [ghost EXCEPT !.calls = @ + 1]
    /\ UNCHANGED <<t_cachedBuffer, m_pool, m_maxPoolSize, m_mutex, m_stats, leases>>

\* the buffer b becomes buf
Becomes(b, buf) == [heap EXCEPT ![b] = [st |-> "live", why |-> "", buf |-> buf]]

\* new DynamicStringBuffer{} and reserve( m_initialCapacity ), as get() does
buffer_new(t) ==
    /\ UnallocBufs # {}
    /\ LET b == Min(UnallocBufs)
       IN  BufferCall(t, "new", b, NULL, m_initialCapacity, nullptr,
                      Becomes(b, reserve(DynamicStringBuffer, m_initialCapacity)))

\* new DynamicStringBuffer( initialCapacity )
buffer_sized(t, initialCapacity) ==
    /\ UnallocBufs # {}
    /\ LET b == Min(UnallocBufs)
       IN  BufferCall(t, "sized", b, NULL, initialCapacity, nullptr,
                      Becomes(b, DynamicStringBuffer_sized(initialCapacity)))

\* DynamicStringBuffer copy{ other }
buffer_copy(t, other) ==
    /\ UnallocBufs # {}
    /\ other \in LiveBufs
    /\ LET b == Min(UnallocBufs)
       IN  BufferCall(t, "copy", b, other, 0, nullptr,
                      Becomes(b, CopyConstruct(heap[other].buf)))

\* DynamicStringBuffer moved{ std::move( other ) }
buffer_move(t, other) ==
    /\ UnallocBufs # {}
    /\ other \in LiveBufs
    /\ LET b == Min(UnallocBufs)
           r == BufferMoveConstruct(heap[other].buf)
       IN  BufferCall(t, "move", b, other, 0, nullptr,
                      [Becomes(b, r.this) EXCEPT ![other].buf = r.other])

\* b = other, lines 106 and 132: nothing happens when other is b itself
buffer_copyAssign(t, b, other) ==
    /\ b \in LiveBufs
    /\ other \in LiveBufs
    /\ BufferCall(t, "copyAssign", b, other, 0, nullptr,
                  IF b # other
                  THEN [heap EXCEPT ![b].buf = CopyAssign(@, heap[other].buf)]
                  ELSE heap)

\* b = std::move( other ), lines 137 and 153
buffer_moveAssign(t, b, other) ==
    /\ b \in LiveBufs
    /\ other \in LiveBufs
    /\ BufferCall(t, "moveAssign", b, other, 0, nullptr,
                  IF b # other
                  THEN LET r == MoveAssign(heap[b].buf, heap[other].buf)
                       IN  [heap EXCEPT ![b].buf = r.this, ![other].buf = r.other]
                  ELSE heap)

\* buffer.append( str ) with a string_view or std::string; StringBuilder::append
\* and operator<< of these forward to it unchanged
buffer_append(t, b, str) ==
    /\ b \in LiveBufs
    /\ BufferCall(t, "append", b, NULL, 0, CStr(str),
                  [heap EXCEPT ![b].buf = append(@, str)])

StringBuilder_append_cstr_printNull(b, str) ==
    append(b, IF str.null THEN <<"(", "n", "u", "l", "l", ")">> ELSE str.chars)

\* StringBuilder::append( const char* ), which operator<<( const char* ) calls
StringBuilder_append_cstr(b, str) == IF ~str.null THEN append_cstr(b, str) ELSE b

\* append( str ) with a const char*, on the buffer itself or through a
\* StringBuilder (create().append( str ), create() << str)
buffer_append_cstr(t, b, str, builder) ==
    /\ b \in LiveBufs
    /\ BufferCall(t, IF builder THEN "StringBuilder::append" ELSE "append", b, NULL, 0, str,
                  [heap EXCEPT ![b].buf = IF builder
                                          THEN StringBuilder_append_cstr(@, str)
                                          ELSE append_cstr(@, str)])

\* buffer.push_back( c )
buffer_push_back(t, b, c) ==
    /\ b \in LiveBufs
    /\ BufferCall(t, "push_back", b, NULL, 0, CStr(<<c>>),
                  [heap EXCEPT ![b].buf = push_back(@, c)])

\* buffer.reserve( newCapacity )
buffer_reserve(t, b, newCapacity) ==
    /\ b \in LiveBufs
    /\ BufferCall(t, "reserve", b, NULL, newCapacity, nullptr,
                  [heap EXCEPT ![b].buf = reserve(@, newCapacity)])

\* buffer.resize( newSize )
buffer_resize(t, b, newSize, junk) ==
    /\ b \in LiveBufs
    /\ BufferCall(t, "resize", b, NULL, newSize, nullptr,
                  [heap EXCEPT ![b].buf = resize(@, newSize, junk)])

\* the bytes of the active storage once c is written at index
Written(b, index, c) == [b EXCEPT !.data[index + 1] = c]

\* buffer[index] = c, for an index inside the content
buffer_index(t, b, index, c) ==
    /\ b \in LiveBufs
    /\ index < heap[b].buf.m_size
    /\ BufferCall(t, "operator[]", b, NULL, index, CStr(<<c>>),
                  [heap EXCEPT ![b].buf = Written(@, index, c)])

\* the capacity the call asks ensureCapacity for: lines 230-231, 252, 194, 188
Wanted(b, op, count, arg) ==
    CASE op = "append" -> b.m_size + Len(arg.chars)
      [] op = "push_back" -> b.m_size + 1
      [] OTHER -> count

\* append, push_back, resize or reserve on b when the allocation it needs
\* fails: no function between ensureCapacity and the caller catches or is
\* noexcept, and none has written to the buffer before it calls ensureCapacity
buffer_throws(t, b, op, count, arg) ==
    /\ b \in LiveBufs
    /\ pc[t] = "idle"
    /\ ghost.calls < MaxCalls
    /\ op = "append" => arg.chars # <<>>
    /\ Allocates(heap[b].buf, Wanted(heap[b].buf, op, count, arg))
    /\ heap' = [heap EXCEPT ![b].buf =
                   ensureCapacity_throws(@, Wanted(heap[b].buf, op, count, arg))]
    /\ pc' = [pc EXCEPT ![t] = "threw"]
    /\ frame' = [frame EXCEPT ![t] =
                   [Frame(op, NULL, NULL) EXCEPT !.ref = b, !.count = count,
                                                !.arg = arg]]
    /\ ghost' = [ghost EXCEPT !.calls = @ + 1]
    /\ UNCHANGED <<t_cachedBuffer, m_pool, m_maxPoolSize, m_mutex, m_stats, leases>>

\* buffer.clear(), which is also all that a release followed by an acquire does
\* to a buffer the pool retains (get(), lines 66 and 91)
buffer_clear(t, b) ==
    /\ b \in LiveBufs
    /\ BufferCall(t, "clear", b, NULL, 0, nullptr, [heap EXCEPT ![b].buf = BufClear(@)])

(***************************************************************************)
(* Specifications                                                          *)
(***************************************************************************)
\* pool and leases: threads acquire, use, move, assign and destroy leases and
\* clear the pool
Next ==
    \E t \in Threads :
        \/ get_begin(t)
        \/ get_slot(t)
        \/ get_lock(t)
        \/ get_cs(t)
        \/ get_new(t)
        \/ ret_lock(t)
        \/ ret_cs(t)
        \/ return_null(t)
        \/ \E l \in Lease : lease_destroy(t, l)
        \/ \E l \in Lease : lease_move(t, l)
        \/ \E l, o \in Lease : lease_assign(t, l, o)
        \/ \E l \in Lease, s \in Strs : lease_append(t, l, s)
        \/ \E l \in Lease, n \in ReserveSizes : lease_reserve(t, l, n)
        \/ clear_begin(t)
        \/ clear_lock(t)
        \/ clear_cs(t)

Spec == Init /\ [][Next]_vars

\* the statistics under concurrent acquires, releases, resets and clears
NextStats ==
    \E t \in Threads :
        \/ get_begin(t)
        \/ get_slot(t)
        \/ get_lock(t)
        \/ get_cs(t)
        \/ get_new(t)
        \/ ret_lock(t)
        \/ ret_cs(t)
        \/ \E l \in Lease : lease_destroy(t, l)
        \/ \E op \in {"resetStats", "clear"} : reset_1(t, op)
        \/ reset_2(t)
        \/ reset_3(t)
        \/ reset_4(t)
        \/ clear_lock(t)
        \/ clear_cs(t)

SpecStats == Init /\ [][NextStats]_vars

\* the lease state machine: calls on Active and Disposed leases
NextLease ==
    \E t \in Threads :
        \/ get_begin(t)
        \/ get_slot(t)
        \/ get_lock(t)
        \/ get_cs(t)
        \/ get_new(t)
        \/ ret_lock(t)
        \/ ret_cs(t)
        \/ \E l \in Lease : lease_destroy(t, l)
        \/ \E l \in Lease : lease_move(t, l)
        \/ \E l, o \in Lease : lease_assign(t, l, o)
        \/ \E l \in Lease, fn \in {"create", "buffer", "toString"} : lease_call(t, l, fn)
        \/ call_end(t)
        \/ \E l, o \in Lease : assign_begin(t, l, o)
        \/ \E l \in Lease, str \in Strs : lease_append(t, l, str)
        \/ assign_body(t)

SpecLease == Init /\ [][NextLease]_vars

\* the thread of the single-threaded scenarios
Main == Min(Threads)
LiveLeases == {l \in Lease : leases[l].st = "live"}

\* auto lease = StringBuilderPool::lease() in a loop body: the previous
\* iteration's lease is gone when the next one is acquired
cycle_acquire(t) ==
    /\ LiveLeases = {}
    /\ get_begin(t)

\* sequential acquire / use / release cycles of one thread, nothing else
\* running; a release never finds the slot occupied here (C12_WithinCap states
\* it), so returnToPool's locked part has no step
NextCycles ==
    \/ cycle_acquire(Main)
    \/ get_slot(Main)
    \/ get_lock(Main)
    \/ get_cs(Main)
    \/ get_new(Main)
    \/ \E l \in Lease, str \in Strs : lease_append(Main, l, str)
    \/ \E l \in Lease, n \in ReserveSizes : lease_reserve(Main, l, n)
    \/ \E l \in Lease : lease_destroy(Main, l)

SpecCycles == Init /\ [][NextCycles]_vars

\* acquire and release, the calls every holder of a lease makes
CoreStep(t) ==
    \/ get_begin(t)
    \/ get_slot(t)
    \/ get_lock(t)
    \/ get_cs(t)
    \/ get_new(t)
    \/ ret_lock(t)
    \/ ret_cs(t)
    \/ \E l \in Lease : lease_destroy(t, l)

\* threads acquire, release, and hand leases on by move construction and
\* move assignment
NextCore ==
    \E t \in Threads :
        \/ CoreStep(t)
        \/ \E l \in Lease : lease_move(t, l)
        \/ \E l, o \in Lease : lease_assign(t, l, o)

SpecCore == Init /\ [][NextCore]_vars

\* one thread acquires, grows buffers up to and past the retained capacity,
\* and releases
NextOver ==
    \/ CoreStep(Main)
    \/ \E l \in Lease, n \in ReserveSizes : lease_reserve(Main, l, n)

SpecOver == Init /\ [][NextOver]_vars

\* one thread acquires, writes, moves leases, releases and acquires again
NextReuse ==
    \/ CoreStep(Main)
    \/ \E l \in Lease, str \in Strs : lease_append(Main, l, str)
    \/ \E l \in Lease : lease_move(Main, l)

SpecReuse == Init /\ [][NextReuse]_vars

\* the next lease of a thread that keeps every lease it has acquired since the
\* statistics were reset (leases.push_back( std::move( lease ) ))
hold_acquire(t) ==
    /\ Cardinality(LiveLeases) = ghost.acquires
    /\ get_begin(t)

\* resetStats() "for clean measurement", with no lease around
hold_reset(t) ==
    /\ LiveLeases = {}
    /\ reset_1(t, "resetStats")

\* one thread: reset the statistics, acquire and hold leases, release them in
\* any order, look at size()
NextHold ==
    \/ hold_reset(Main)
    \/ reset_2(Main)
    \/ reset_3(Main)
    \/ reset_4(Main)
    \/ hold_acquire(Main)
    \/ get_slot(Main)
    \/ get_lock(Main)
    \/ get_cs(Main)
    \/ get_new(Main)
    \/ \E l \in Lease : lease_destroy(Main, l)
    \/ ret_lock(Main)
    \/ ret_cs(Main)
    \/ size_lock(Main)
    \/ size_cs(Main)
    \/ call_end(Main)

SpecHold == Init /\ [][NextHold]_vars

\* one thread calls stats() again and again while the others acquire, release
\* and, between two batches of leases, reset the statistics
NextRate ==
    \/ stats_begin(Main)
    \/ \E i \in 2..4 : stats_load(Main, i)
    \/ hitRate_total(Main)
    \/ \E first \in HitCounters : hitRate_hits(Main, first)
    \/ hitRate_sum(Main)
    \/ call_end(Main)
    \/ \E t \in Threads \ {Main} :
          \/ get_begin(t)
          \/ get_slot(t)
          \/ get_lock(t)
          \/ get_cs(t)
          \/ get_new(t)
          \/ \E l \in Lease : lease_destroy(t, l)
          \/ ret_lock(t)
          \/ ret_cs(t)
          \/ hold_reset(t)
          \/ reset_2(t)
          \/ reset_3(t)
          \/ reset_4(t)

SpecRate == Init /\ [][NextRate]_vars

\* what thread t can do in SpecSize
SizeStep(t) ==
    \/ get_begin(t)
    \/ get_slot(t)
    \/ get_lock(t)
    \/ get_cs(t)
    \/ get_new(t)
    \/ \E l \in Lease : lease_destroy(t, l)
    \/ ret_lock(t)
    \/ ret_cs(t)
    \/ size_lock(t)
    \/ size_cs(t)
    \/ clear_call(t)
    \/ clear_lock(t)
    \/ clear_cs(t)
    \/ call_end(t)
    \/ \E registered \in BOOLEAN : thread_exit(t, registered)

\* threads acquire and release, ask for size(), clear the pool and exit
NextSize == \E t \in Threads : SizeStep(t)

SpecSize == Init /\ [][NextSize]_vars

\* a thread inside a call takes its next step if it stays able to, and gets
\* the mutex if it is able to again and again: the scheduler is fair and so is
\* the hand-over of the mutex
Fairness ==
    \A t \in Threads :
        /\ WF_vars(pc[t] # "idle" /\ SizeStep(t))
        /\ SF_vars(get_lock(t) \/ ret_lock(t) \/ clear_lock(t))

SpecFair == Init /\ [][NextSize]_vars /\ Fairness

\* the same up to the end of the program: main returns while the other
\* threads may still be running, and the pool is destroyed
NextExit ==
    \/ \E t \in Threads : SizeStep(t)
    \/ teardown_lock(Main)
    \/ teardown_cs(Main)

SpecExit == Init /\ [][NextExit]_vars

\* every way a buffer is deallocated: the same, with leases that grow their
\* buffers past the retained capacity and hand them from lease to lease,
\* and without size()
NextSafe ==
    \/ \E t \in Threads :
          \/ get_begin(t)
          \/ get_slot(t)
          \/ get_lock(t)
          \/ get_cs(t)
          \/ get_new(t)
          \/ \E l \in Lease : lease_destroy(t, l)
          \/ \E l \in Lease, n \in ReserveSizes : lease_reserve(t, l, n)
          \/ \E l, o \in Lease : lease_assign(t, l, o)
          \/ ret_lock(t)
          \/ ret_cs(t)
          \/ clear_call(t)
          \/ clear_lock(t)
          \/ clear_cs(t)
          \/ call_end(t)
          \/ \E registered \in BOOLEAN : thread_exit(t, registered)
    \/ teardown_lock(Main)
    \/ teardown_cs(Main)

SpecSafe == Init /\ [][NextSafe]_vars

\* the two ways of clearing: StringBuilderPool::clear() and the pool's own
\* clear(), among acquires and releases
NextClear ==
    \E t \in Threads :
        \/ get_begin(t)
        \/ get_slot(t)
        \/ get_lock(t)
        \/ get_cs(t)
        \/ get_new(t)
        \/ \E l \in Lease : lease_destroy(t, l)
        \/ ret_lock(t)
        \/ ret_cs(t)
        \/ reset_1(t, "clear")
        \/ reset_2(t)
        \/ reset_3(t)
        \/ reset_4(t)
        \/ clear_call(t)
        \/ clear_lock(t)
        \/ clear_cs(t)
        \/ call_end(t)

SpecClear == Init /\ [][NextClear]_vars

\* stats() called while no other thread is inside a call
quiet_stats(t) ==
    /\ \A u \in Threads \ {t} : pc[u] = "idle"
    /\ stats_begin(t)

\* a step A of another thread, taken while Main is outside stats()
Quiet(A) ==
    /\ pc[Main] = "idle"
    /\ A

\* the other threads acquire, release and reset; Main calls stats() between
\* their calls, never during one (EXPECT_DOUBLE_EQ( stats.hitRate, ... ) after
\* the leases of the test are gone)
NextQuiet ==
    \/ quiet_stats(Main)
    \/ \E i \in 2..4 : stats_load(Main, i)
    \/ hitRate_total(Main)
    \/ \E first \in HitCounters : hitRate_hits(Main, first)
    \/ hitRate_sum(Main)
    \/ call_end(Main)
    \/ \E t \in Threads \ {Main} :
          \/ Quiet(get_begin(t))
          \/ Quiet(get_slot(t))
          \/ Quiet(get_lock(t))
          \/ Quiet(get_cs(t))
          \/ Quiet(get_new(t))
          \/ \E l \in Lease : Quiet(lease_destroy(t, l))
          \/ Quiet(ret_lock(t))
          \/ Quiet(ret_cs(t))
          \/ Quiet(hold_reset(t))
          \/ Quiet(reset_2(t))
          \/ Quiet(reset_3(t))
          \/ Quiet(reset_4(t))

SpecQuiet == Init /\ [][NextQuiet]_vars

\* one thread constructs, copies, moves, fills, resizes and clears buffers
NextBuf ==
    \/ buffer_new(Main)
    \/ \E n \in Sizes : buffer_sized(Main, n)
    \/ \E o \in Buf : buffer_copy(Main, o)
    \/ \E o \in Buf : buffer_move(Main, o)
    \/ \E b, o \in Buf : buffer_copyAssign(Main, b, o)
    \/ \E b, o \in Buf : buffer_moveAssign(Main, b, o)
    \/ \E b \in Buf, str \in BufStrs : buffer_append(Main, b, str)
    \/ \E b \in Buf, str \in CStrs, builder \in BOOLEAN :
          buffer_append_cstr(Main, b, str, builder)
    \/ \E b \in Buf, c \in Chars : buffer_push_back(Main, b, c)
    \/ \E b \in Buf, n \in Sizes : buffer_reserve(Main, b, n)
    \/ \E b \in Buf, n \in Sizes, junk \in Junk : buffer_resize(Main, b, n, junk)
    \/ \E b \in Buf : buffer_clear(Main, b)
    \/ \E b \in Buf, i \in Indexes, c \in Chars : buffer_index(Main, b, i, c)
    \/ \E b \in Buf, str \in BufStrs : buffer_throws(Main, b, "append", 0, CStr(str))
    \/ \E b \in Buf, c \in Chars : buffer_throws(Main, b, "push_back", 0, CStr(<<c>>))
    \/ \E b \in Buf, n \in Sizes, op \in {"resize", "reserve"} :
          buffer_throws(Main, b, op, n, nullptr)
    \/ call_end(Main)

SpecBuf == Init /\ [][NextBuf]_vars

\* one thread acquires leases, builds "Hello, World!" in each with four
\* appends and releases them
NextGreeting ==
    \/ get_begin(Main)
    \/ get_slot(Main)
    \/ get_lock(Main)
    \/ get_cs(Main)
    \/ get_new(Main)
    \/ \E l \in Lease, pushed \in BOOLEAN : greeting_append(Main, l, pushed)
    \/ \E l \in Lease : lease_destroy(Main, l)
    \/ ret_lock(Main)
    \/ ret_cs(Main)

SpecGreeting == Init /\ [][NextGreeting]_vars

\* threads acquire leases, write to them, move-assign one onto another
\* (lease3 = std::move( lease4 )) and destroy them; a lease is never moved
\* from in any other way
NextAssign ==
    \E t \in Threads :
        \/ get_begin(t)
        \/ get_slot(t)
        \/ get_lock(t)
        \/ get_cs(t)
        \/ get_new(t)
        \/ \E l \in Lease, str \in Strs : lease_append(t, l, str)
        \/ \E l, o \in Lease : assign_begin(t, l, o)
        \/ assign_body(t)
        \/ ret_lock(t)
        \/ ret_cs(t)
        \/ call_end(t)
        \/ \E l \in Lease : lease_destroy(t, l)

SpecAssign == Init /\ [][NextAssign]_vars

\* a lease is destroyed while the shared pool is being filled: none since the
\* statistics were last reset has been served from it
fill_destroy(t, l) ==
    /\ m_stats.dynamicStringBufferPoolHits = 0
    /\ lease_destroy(t, l)

\* a call of get() by the only thread running, which a buffer stored in its
\* slot or in the shared pool will serve
drain_acquire(t) ==
    /\ t_cachedBuffer[t] # NULL \/ m_pool # <<>>
    /\ UnallocBufs = {}
    /\ get_entry(t)

\* one thread and a pool with room for one buffer more: it acquires leases,
\* destroys them in any order, resets the statistics and acquires again
NextLifo ==
    \/ get_begin(Main)
    \/ drain_acquire(Main)
    \/ get_slot(Main)
    \/ get_lock(Main)
    \/ get_cs(Main)
    \/ get_new(Main)
    \/ \E l \in Lease : fill_destroy(Main, l)
    \/ ret_lock(Main)
    \/ ret_cs(Main)
    \/ hold_reset(Main)
    \/ reset_2(Main)
    \/ reset_3(Main)
    \/ reset_4(Main)

SpecLifo == InitWide /\ [][NextLifo]_vars

(***************************************************************************)
(* Properties                                                              *)
(***************************************************************************)
ValidLeases == {l \in Lease : leases[l].st = "live" /\ leases[l].m_valid}
Holders(b) == {l \in ValidLeases : leases[l].m_buffer = b}
Stored(b) == (\E t \in Threads : t_cachedBuffer[t] = b) \/ b \in Range(m_pool)
\* a lease whose dispose() has called returnToPool and waits for the shared pool
Returning(l) == \E t \in Threads : pc[t] \in {"ret_lock", "ret_cs"} /\ frame[t].lease = l
\* this step enters returnToPool( b )
Released(b) == ghost'.outstanding[b] < ghost.outstanding[b]
\* this step returns b from get() into a new lease
HandedOut(b) == ghost'.outstanding[b] > ghost.outstanding[b]
StatSum == m_stats.threadLocalHits + m_stats.dynamicStringBufferPoolHits
           + m_stats.newAllocations
Rises(field) == m_stats' = [m_stats EXCEPT ![field] = @ + 1]

C2_Outstanding ==
    \A b \in Buf :
        ghost.outstanding[b] = Cardinality({l \in Holders(b) : ~Returning(l)})

C2_DisposedIsNoOp ==
    \A l \in Lease :
        (leases[l].st = "live" /\ ~leases[l].m_valid /\ leases'[l] # leases[l])
            => UNCHANGED <<heap, t_cachedBuffer, m_pool, m_mutex, m_stats, ghost>>

\* C2: a buffer handed out by lease() and not yet passed to returnToPool is
\* held by exactly one valid lease (so the destruction of the last holder
\* returns it), returnToPool is entered once per hand-out (the difference
\* never drops below zero), and destroying or assigning to an already
\* disposed lease changes nothing in the pool.
C2_ExactlyOnceReturn == [](C2_Outstanding) /\ [][C2_DisposedIsNoOp]_vars

\* one lease() call, its lease moved from, every lease disposed, and the
\* buffer back in a slot
C2_Witness ==
    /\ m_stats.totalRequests = 1
    /\ ValidLeases = {}
    /\ \E d \in Lease : leases[d] = Disposed
    /\ \E t \in Threads : t_cachedBuffer[t] # NULL
    /\ \A b \in Buf : ghost.outstanding[b] = 0

\* C3, as claimed: totalRequests == threadLocalHits + sharedHits +
\* newAllocations in every reachable state.
C3_SumAtAllTimes == m_stats.totalRequests = StatSum

\* C3, amended: when no reset() is part-way through and none has overlapped an
\* acquire, totalRequests exceeds the sum of the three tier counters by the
\* number of acquires that are part-way through; the two are equal when none is.
C3_SumWhenQuiescent ==
    (~ghost.raced /\ InReset = {})
        => m_stats.totalRequests = StatSum + Cardinality(InGet)

\* after a reset that overlapped nothing: one hit of each tier, nothing in flight
C3_Witness ==
    /\ ~ghost.raced /\ InReset = {} /\ InGet = {}
    /\ m_stats.threadLocalHits = 1
    /\ m_stats.dynamicStringBufferPoolHits = 1
    /\ m_stats.newAllocations = 1
    /\ m_stats.totalRequests = 3

C5_StoredWithinCap ==
    \A b \in Buf : Stored(b) => heap[b].buf.m_capacity <= m_maximumRetainedCapacity

C5_OversizedDeleted ==
    \A b \in Buf :
        (Released(b) /\ heap[b].buf.m_capacity > m_maximumRetainedCapacity)
            => /\ heap'[b].st = "freed"
               /\ t_cachedBuffer' = t_cachedBuffer
               /\ m_pool' = m_pool

\* C5: every buffer in a thread-local slot or in the shared pool has capacity
\* <= maxRetainedCapacity, and a release of a buffer above the cap deletes it
\* and stores nothing.
C5_RetainedCapacity == [](C5_StoredWithinCap) /\ [][C5_OversizedDeleted]_vars

\* a buffer of capacity 2048 is stored, one above the cap has been deleted
C5_Witness ==
    /\ \E b \in Buf : Stored(b) /\ heap[b].buf.m_capacity = m_maximumRetainedCapacity
    /\ \E b \in Buf : heap[b].st = "freed" /\ heap[b].why = "oversized"

\* this step is thread t returning a lease on b from get()
Handed(t, b) ==
    /\ pc'[t] = "idle"
    /\ leases' = [leases EXCEPT ![frame[t].lease] = StringBuilderLease(b)]
    /\ HandedOut(b)

C6_Tiers ==
    \A t \in Threads :
        /\ (pc[t] = "idle" /\ pc'[t] = "get_slot") => Rises("totalRequests")
        /\ (pc[t] = "get_slot" /\ pc'[t] # "get_slot") =>
              IF t_cachedBuffer[t] # NULL
              THEN /\ Handed(t, t_cachedBuffer[t])
                   /\ t_cachedBuffer' = [t_cachedBuffer EXCEPT ![t] = NULL]
                   /\ m_pool' = m_pool
                   /\ Rises("threadLocalHits")
              ELSE /\ pc'[t] = "get_lock"
                   /\ UNCHANGED <<m_stats, leases, t_cachedBuffer, m_pool, heap>>
        /\ (pc[t] = "get_cs" /\ pc'[t] # "get_cs") =>
              /\ t_cachedBuffer[t] = NULL
              /\ t_cachedBuffer' = t_cachedBuffer
              /\ IF m_pool # <<>>
                 THEN /\ \E i \in DOMAIN m_pool :
                            /\ Handed(t, m_pool[i])
                            /\ m_pool' = SubSeq(m_pool, 1, i - 1)
                                         \o SubSeq(m_pool, i + 1, Len(m_pool))
                      /\ Rises("dynamicStringBufferPoolHits")
                 ELSE /\ pc'[t] = "get_new"
                      /\ UNCHANGED <<m_stats, leases, m_pool, heap>>
        /\ (pc[t] = "get_new" /\ pc'[t] # "get_new") =>
              /\ t_cachedBuffer[t] = NULL
              /\ UNCHANGED <<t_cachedBuffer, m_pool>>
              /\ \E b \in Buf : /\ heap[b].st = "unalloc"
                                /\ heap'[b].st = "live"
                                /\ heap'[b].buf.m_capacity = m_initialCapacity
                                /\ Handed(t, b)
              /\ Rises("newAllocations")
        /\ (pc[t] # "get_new" /\ pc'[t] = "get_new") =>
              pc[t] = "get_cs" /\ m_pool = <<>> /\ t_cachedBuffer[t] = NULL

C6_OnePerAcquire ==
    /\ m_stats' # m_stats =>
          \E t \in Threads : \/ pc[t] = "idle" /\ pc'[t] = "get_slot"
                             \/ t \in InGet /\ pc'[t] = "idle"
    /\ \A t \in Threads : (t \in InGet /\ pc'[t] = "idle") =>
          \E f \in {"threadLocalHits", "dynamicStringBufferPoolHits", "newAllocations"} :
              Rises(f)

\* C6: get() serves from the calling thread's slot when it holds a buffer
\* (emptying the slot, counting a thread-local hit), otherwise from the shared
\* pool when that is not empty (popping the buffer, counting a shared hit),
\* and allocates (counting a new allocation) only after finding both empty;
\* every acquire raises totalRequests once and exactly one tier counter once.
C6_TierPriority == [][C6_Tiers /\ C6_OnePerAcquire]_vars

\* three acquires done: two allocations, then one served from the shared pool
C6_Witness ==
    /\ InGet = {}
    /\ m_stats.newAllocations = 2
    /\ m_stats.dynamicStringBufferPoolHits = 1
    /\ m_stats.totalRequests = 3

C7_Entry ==
    \A b \in Buf : Released(b) =>
        IF heap[b].buf.m_capacity > m_maximumRetainedCapacity
        THEN /\ heap'[b].st = "freed"
             /\ UNCHANGED <<t_cachedBuffer, m_pool>>
        ELSE \/ \E t \in Threads :
                   /\ t_cachedBuffer[t] = NULL
                   /\ t_cachedBuffer' = [t_cachedBuffer EXCEPT ![t] = b]
                   /\ pc'[t] = "idle"
                   /\ UNCHANGED <<m_pool, heap>>
             \/ \E t \in Threads :
                   /\ t_cachedBuffer[t] # NULL
                   /\ pc[t] = "idle" /\ pc'[t] = "ret_lock"
                   /\ leases[frame'[t].lease].m_buffer = b
                   /\ UNCHANGED <<t_cachedBuffer, m_pool, heap>>

C7_Shared ==
    \A t \in Threads : (pc[t] = "ret_cs" /\ pc'[t] # "ret_cs") =>
        LET b == leases[frame[t].lease].m_buffer
        IN  /\ t_cachedBuffer' = t_cachedBuffer
            /\ IF Len(m_pool) < m_maxPoolSize
               THEN m_pool' = Append(m_pool, b) /\ heap' = heap
               ELSE m_pool' = m_pool /\ heap'[b].st = "freed"

C7_NothingElseStores ==
    /\ (t_cachedBuffer' # t_cachedBuffer \/ m_pool' # m_pool) =>
          \/ \E b \in Buf : Released(b)
          \/ \E t \in Threads :
                /\ pc[t] \in {"get_slot", "get_cs", "ret_cs", "clear_cs"}
                /\ pc'[t] = "idle"
    /\ NULL \notin Range(m_pool')

C8_Empty ==
    \A b \in Buf : HandedOut(b) =>
        heap'[b].buf.m_size = 0 /\ toString(heap'[b].buf) = <<>>

C9_AccessNeedsValid ==
    \A t \in Threads : pc[t] \in {"returned", "threw"} =>
        LET lease == leases[frame[t].lease]
        IN  IF lease.m_valid
            THEN pc[t] = "returned" /\ frame[t].ref = lease.m_buffer
                 /\ frame[t].ref \in Buf
            ELSE pc[t] = "threw" /\ frame[t].ref = NULL

\* one thread's call threw on a Disposed lease while the other's returned on an
\* Active one
C9_Witness ==
    \E t, u \in Threads :
        /\ pc[t] = "threw" /\ leases[frame[t].lease] = Disposed
        /\ pc[u] = "returned" /\ frame[u].lease \in ValidLeases

C10_Move ==
    \A dst \in Lease :
        (leases[dst].st = "none" /\ leases'[dst].st = "live" /\ pc' = pc) =>
            \E src \in Lease \ {dst} :
                /\ leases[src].st = "live"
                /\ leases'[dst] = [st |-> "live", m_buffer |-> leases[src].m_buffer,
                                   m_valid |-> leases[src].m_valid]
                /\ leases'[src] = Disposed
                /\ \A o \in Lease \ {src, dst} : leases'[o] = leases[o]
                /\ UNCHANGED <<heap, t_cachedBuffer, m_pool, m_mutex, m_stats, ghost>>

\* C10: move-constructing a lease leaves the source Disposed and gives the new
\* lease the source's buffer and validity, and changes neither a slot, the
\* shared pool, the statistics nor any buffer.
C10_MoveConstruct == [][C10_Move]_vars

\* after one lease() call: its lease moved from, the new lease valid and
\* holding the content
C10_Witness ==
    /\ m_stats.totalRequests = 1
    /\ \E src, dst \in Lease :
          /\ leases[src] = Disposed
          /\ dst \in ValidLeases
          /\ heap[leases[dst].m_buffer].buf.m_size > 0

C11_SelfAssign ==
    \A t \in Threads :
        (/\ pc[t] = "assign" /\ pc'[t] # "assign"
         /\ frame[t].lease = frame[t].other
         /\ leases[frame[t].lease].m_valid) =>
            /\ leases' = leases
            /\ leases'[frame[t].lease].m_valid
            /\ UNCHANGED <<heap, t_cachedBuffer, m_pool, m_mutex, m_stats, ghost>>
            /\ pc'[t] = "assigned"

\* C11: move-assigning an Active lease to itself leaves every lease as it was
\* (the lease still Active with the same buffer), leaves the buffer's content,
\* every slot and the shared pool unchanged, and enters returnToPool for no
\* buffer.
C11_SelfMoveAssign == [][C11_SelfAssign]_vars

\* a self-move-assignment of an Active lease has returned: the lease is still
\* Active and its buffer is handed out, live, in no tier and holds its content
C11_Witness ==
    \E t \in Threads, l \in ValidLeases :
        /\ pc[t] = "assigned" /\ frame[t].lease = l /\ frame[t].other = l
        /\ heap[leases[l].m_buffer].st = "live"
        /\ toString(heap[leases[l].m_buffer].buf) = <<"a">>
        /\ ghost.outstanding[leases[l].m_buffer] = 1
        /\ ~Stored(leases[l].m_buffer)

\* no call is in progress and no lease exists
Quiescent == (\A t \in Threads : pc[t] = "idle") /\ LiveLeases = {}
\* releases that deleted the buffer because its capacity was above the cap
OversizedReleases ==
    Cardinality({b \in Buf : heap[b].st = "freed" /\ heap[b].why = "oversized"})

\* C12, as claimed: after N sequential cycles of one thread, for any use of
\* the buffer in between, threadLocalHits >= N - 1.
C12_AnyUse == Quiescent => m_stats.threadLocalHits >= ghost.acquires - 1

\* C12, amended: after N sequential cycles of one thread, threadLocalHits >=
\* N - 1 - (the number of cycles that released a buffer grown above
\* maxRetainedCapacity); so threadLocalHits >= N - 1 when no cycle did.
C12_WithinCap ==
    /\ Quiescent => m_stats.threadLocalHits >= ghost.acquires - 1 - OversizedReleases
    /\ \A t \in Threads : pc[t] # "ret_lock"

\* three cycles done, the first missed and the other two hit the slot, the
\* buffer grown to the cap on the way and kept
C12_Witness ==
    /\ Quiescent
    /\ ghost.acquires = MaxRequests
    /\ m_stats.threadLocalHits = MaxRequests - 1
    /\ OversizedReleases = 0
    /\ t_cachedBuffer[Main] # NULL
    /\ heap[t_cachedBuffer[Main]].buf.m_capacity = m_maximumRetainedCapacity

\* more leases than the slot and the shared pool together can supply
Held == m_maxPoolSize + 2
\* thread t is back from size() after acquiring Held leases, holding them all
\* at once and releasing every one
ReleasedAll(t) ==
    /\ pc[t] = "returned" /\ frame[t].op = "size"
    /\ LiveLeases = {}
    /\ ghost.acquires = Held

\* C13, as claimed (maxPoolSize = 24, 30 leases): after holding more leases
\* than maxPoolSize and releasing them all, size() <= maxPoolSize and
\* newAllocations > 0.
C13_AtMostPoolSize ==
    \A t \in Threads : ReleasedAll(t) =>
        frame[t].count <= m_maxPoolSize /\ m_stats.newAllocations > 0

\* C13, amended: size() <= maxPoolSize + 1 (the slot of the calling thread
\* counts too), and newAllocations > 0.
C13_AtMostPoolSizePlusSlot ==
    \A t \in Threads : ReleasedAll(t) =>
        frame[t].count <= m_maxPoolSize + 1 /\ m_stats.newAllocations > 0

\* the leases were served from a full slot and a full shared pool and by one
\* allocation; after the release size() counts the full pool and the slot, and
\* the buffer that found no room was deleted
C13_Witness ==
    \E t \in Threads :
        /\ ReleasedAll(t)
        /\ frame[t].count = m_maxPoolSize + 1
        /\ m_stats.newAllocations = 1
        /\ m_stats.threadLocalHits = 1
        /\ \E b \in Buf : heap[b].st = "freed" /\ heap[b].why = "full"

C14_SizeUnchanged ==
    \A b \in Buf :
        (Released(b) /\ heap[b].buf.m_capacity > m_maximumRetainedCapacity) =>
            \A t \in Threads : size(t)' = size(t)

\* C14: the step that releases a buffer whose capacity is above
\* maxRetainedCapacity leaves the value size() computes the same, for the
\* releasing thread and every other.
C14_OversizedReleaseKeepsSize == [][C14_SizeUnchanged]_vars

\* the only buffer ever acquired was released above the cap while the slot of
\* its thread was empty and the shared pool had room: nothing is stored
C14_Witness ==
    /\ ghost.acquires = 1
    /\ \E b \in Buf : heap[b].st = "freed" /\ heap[b].why = "oversized"
    /\ \A t \in Threads : size(t) = 0 /\ pc[t] = "idle"

\* the buffers this step deallocates
Freed == {b \in Buf : heap[b].st = "live" /\ heap'[b].st = "freed"}
OwnSlot(t) == {t_cachedBuffer[t]} \ {NULL}

C15_Clear ==
    \A t \in Threads : (pc[t] = "clear_cs" /\ pc'[t] # "clear_cs") =>
        /\ Freed = Range(m_pool) \cup OwnSlot(t)
        /\ m_pool' = <<>>
        /\ t_cachedBuffer'[t] = NULL
        /\ frame[t].op = "clearedCount" =>
              /\ pc'[t] = "returned"
              /\ frame'[t].count = Cardinality(Freed)
              /\ frame'[t].count = Len(m_pool) + Cardinality(OwnSlot(t))
        /\ size(t)' = 0

\* C15: clear() deallocates every buffer of the shared pool and the buffer in
\* the calling thread's slot and nothing else, empties both, returns the
\* number of buffers it deallocated (the shared count, plus 1 when the slot
\* was occupied), and size() of the calling thread is 0 in the state it
\* leaves.
C15_ClearFreesAndCounts == [][C15_Clear]_vars

\* clear() has returned 2 to a thread whose slot and the shared pool held one
\* buffer each; another thread's slot still holds its buffer
C15_Witness ==
    \E t \in Threads :
        /\ pc[t] = "returned" /\ frame[t].op = "clearedCount"
        /\ frame[t].count = 2
        /\ Cardinality({b \in Buf : heap[b].st = "freed" /\ heap[b].why = "clear"}) = 2
        /\ size(t) = 0
        /\ \E u \in Threads \ {t} : t_cachedBuffer[u] # NULL

C16_Size ==
    \A t \in Threads : (pc[t] = "size_cs" /\ pc'[t] # "size_cs") =>
        /\ pc'[t] = "returned"
        /\ frame'[t].count = Cardinality(DOMAIN m_pool) + Cardinality(OwnSlot(t))
        /\ UNCHANGED <<heap, t_cachedBuffer, m_pool, m_stats, leases, ghost>>

\* C16: size() returns the number of buffers in the shared pool, plus 1
\* exactly when the calling thread's own slot is occupied, whatever the other
\* threads' slots hold, and changes no buffer, slot, pool entry, counter or
\* lease.
C16_SizeCountsOwnSlotOnly == [][C16_Size]_vars

\* size() has returned 1 for the one buffer of the shared pool to a thread
\* whose own slot is empty, while another thread's slot is occupied
C16_Witness ==
    \E t \in Threads :
        /\ pc[t] = "returned" /\ frame[t].op = "size"
        /\ frame[t].count = 1
        /\ Len(m_pool) = 1
        /\ t_cachedBuffer[t] = NULL
        /\ \E u \in Threads \ {t} : t_cachedBuffer[u] # NULL

C17_OwnSlotOnly ==
    \A t \in Threads : SizeStep(t) =>
        \A u \in Threads \ {t} : t_cachedBuffer'[u] = t_cachedBuffer[u]

\* C17: a step of thread t (of an acquire, a release, clear(), size() or the
\* thread's exit) leaves the slot of every other thread as it was.
C17_SlotIsolation == [][C17_OwnSlotOnly]_vars

\* one thread's clear() has deleted the buffer of its own slot; the other
\* thread's slot still holds a live buffer, also after that thread's exit
C17_Witness ==
    \E t \in Threads : \E u \in Threads \ {t} :
        /\ pc[t] = "returned" /\ frame[t].op = "clearedCount" /\ frame[t].count = 1
        /\ t_cachedBuffer[u] # NULL
        /\ heap[t_cachedBuffer[u]].st = "live"

\* C18: once a thread has exited its slot is empty, and every buffer that is
\* still allocated is held by a lease, in the shared pool or in the slot of a
\* running thread.
C18_NoLeakAtExit ==
    /\ \A t \in Threads : pc[t] = "exited" => t_cachedBuffer[t] = NULL
    /\ \A b \in Buf : heap[b].st = "live" =>
          \/ Holders(b) # {}
          \/ b \in Range(m_pool)
          \/ \E u \in Threads : pc[u] # "exited" /\ t_cachedBuffer[u] = b

C19_Counted ==
    (~ghost.raced /\ InReset = {})
        => m_stats.totalRequests = ghost.acquires + Cardinality(InGet)

C19_OncePerAcquire ==
    m_stats'.totalRequests # m_stats.totalRequests =>
        \/ \E t \in Threads :
              /\ pc[t] = "idle" /\ pc'[t] = "get_slot"
              /\ m_stats'.totalRequests = m_stats.totalRequests + 1
        \/ \E t \in Threads : pc[t] = "reset_4" /\ m_stats'.totalRequests = 0

C20_HitRateInRange ==
    \A t \in Threads : (pc[t] = "returned" /\ frame[t].op = "stats") =>
        /\ frame[t].hitRate.den > 0
        /\ 0 <= frame[t].hitRate.num
        /\ frame[t].hitRate.num <= frame[t].hitRate.den

(* C21: a stats() call made while no acquire (and no reset) is in progress  *)
(* returns hitRate 0 when totalRequests is 0 and otherwise                   *)
(* (threadLocalHits + dynamicStringBufferPoolHits) / totalRequests; the      *)
(* divisor is never 0.                                                       *)
StatsReturns(t) ==
    /\ pc[t] \in {"hitRate_total", "hitRate_sum"}
    /\ pc'[t] = "returned"

HitSum == m_stats.threadLocalHits + m_stats.dynamicStringBufferPoolHits

C21_Rate ==
    StatsReturns(Main) =>
        frame'[Main].hitRate = IF m_stats.totalRequests = 0
                               THEN Zero
                               ELSE Ratio(HitSum, m_stats.totalRequests)

C21_NoDivisionByZero == \A t \in Threads : frame[t].hitRate.den # 0

C21_HitRateWhenQuiet == [](C21_NoDivisionByZero) /\ [][C21_Rate]_vars

\* stats() has returned 1/2: one fresh allocation, one thread-local hit
C21_Witness ==
    /\ pc[Main] = "returned"
    /\ frame[Main].op = "stats"
    /\ frame[Main].hitRate = Ratio(1, 2)
    /\ m_stats.totalRequests = 2
    /\ HitSum = 1

(***************************************************************************)
(* Properties of DynamicStringBuffer, on SpecBuf                           *)
(***************************************************************************)
\* this step is a call of op on a buffer, up to its return
Calls(op) ==
    /\ pc[Main] = "idle"
    /\ pc'[Main] = "returned"
    /\ frame'[Main].op = op
\* the buffer the call is made on, before and after the call
Before == heap[frame'[Main].ref].buf
After == heap'[frame'[Main].ref].buf
\* the thread is back from a call of op
Called(op) == pc[Main] = "returned" /\ frame[Main].op = op
This == heap[frame[Main].ref].buf
Other == heap[frame[Main].other].buf

(* C22: every buffer that exists has size <= capacity, whatever sequence of *)
(* constructions, appends, push_backs, reserves, resizes, clears, copies    *)
(* and moves made it and the buffers it was copied or moved from and to.    *)
C22_SizeWithinCapacity ==
    \A b \in LiveBufs : heap[b].buf.m_size <= heap[b].buf.m_capacity

\* a move assignment has taken a heap block with more than inline content
\* from other
C22_Witness ==
    /\ Called("moveAssign")
    /\ frame[Main].ref # frame[Main].other
    /\ This.m_size > STACK_BUFFER_SIZE
    /\ This.m_size = This.m_capacity
    /\ Other.m_size = 0

(* C23: every buffer that exists has capacity >= STACK_BUFFER_SIZE; not on  *)
(* the heap, its capacity is exactly STACK_BUFFER_SIZE; on the heap, its    *)
(* unique_ptr owns a block of exactly capacity bytes.                       *)
C23_Storage ==
    \A b \in LiveBufs :
        LET buf == heap[b].buf
        IN  /\ buf.m_capacity >= STACK_BUFFER_SIZE
            /\ ~buf.m_onHeap => buf.m_capacity = STACK_BUFFER_SIZE
            /\ buf.m_onHeap => buf.m_heapBuffer = buf.m_capacity

\* a copy assignment has reused the target's larger heap block
C23_Witness ==
    /\ Called("copyAssign")
    /\ frame[Main].ref # frame[Main].other
    /\ This.m_onHeap
    /\ Other.m_onHeap
    /\ This.m_capacity > Other.m_capacity
    /\ This.m_size = Other.m_size
    /\ This.m_size > 0

\* the call made in this step leaves buffer b moved from, or assigns to it
\* from a buffer that uses its inline storage
Demotes(b) ==
    LET call == frame'[Main]
    IN  /\ call.ref # call.other
        /\ \/ call.op \in {"move", "moveAssign"} /\ b = call.other
           \/ /\ call.op \in {"copyAssign", "moveAssign"}
              /\ b = call.ref
              /\ ~heap[call.other].buf.m_onHeap

(* C24 as stated: a buffer on the heap is still on the heap, with a         *)
(* capacity above STACK_BUFFER_SIZE, after any step.                        *)
C24_NeverInlineAgain ==
    [][\A b \in LiveBufs :
          heap[b].buf.m_onHeap =>
              /\ heap'[b].buf.m_onHeap
              /\ heap'[b].buf.m_capacity > STACK_BUFFER_SIZE]_vars

(* C24 amended: a buffer on the heap stays on the heap, with a capacity     *)
(* above STACK_BUFFER_SIZE, under append, push_back, reserve, resize,       *)
(* clear (which is all recycling through the pool does to it), being copied *)
(* from and assignment from a buffer on the heap; it is back on its inline  *)
(* storage with capacity STACK_BUFFER_SIZE once it has been moved from or   *)
(* assigned from a buffer that uses its inline storage.                     *)
C24_Promotion ==
    \A b \in LiveBufs :
        heap[b].buf.m_onHeap =>
            IF Demotes(b)
            THEN /\ ~heap'[b].buf.m_onHeap
                 /\ heap'[b].buf.m_capacity = STACK_BUFFER_SIZE
            ELSE /\ heap'[b].buf.m_onHeap
                 /\ heap'[b].buf.m_capacity > STACK_BUFFER_SIZE

C24_PromotionOneWayBelowAssignment == [][C24_Promotion]_vars

\* clear() has emptied a buffer that held more than the inline storage takes,
\* and it is still on the heap
C24_Witness ==
    /\ Called("clear")
    /\ This.m_onHeap
    /\ This.m_capacity > STACK_BUFFER_SIZE
    /\ This.m_size = 0
    /\ Len(This.data) > STACK_BUFFER_SIZE

\* this step is an append or a push_back, and what it was given
Appends == Calls("append") \/ Calls("StringBuilder::append") \/ Calls("push_back")
Appended == frame'[Main].arg.chars

(* C25: a buffer handed out new is empty, and every append and push_back    *)
(* makes toString() what it was followed by the bytes given and size() its  *)
(* length, so that after each call of a sequence toString() is the          *)
(* concatenation of all that was appended; growth and the promotion to the  *)
(* heap in the middle of a call change nothing of it.                       *)
C25_Appending ==
    /\ Calls("new") => toString(After) = <<>> /\ After.m_size = 0
    /\ Appends =>
          /\ toString(After) = toString(Before) \o Appended
          /\ After.m_size = Before.m_size + Len(Appended)

C25_ContentRoundTrip == [][C25_Appending]_vars

\* the append that took the buffer from its inline storage to the heap
C25_Witness ==
    /\ Called("append")
    /\ frame[Main].arg = CStr(HelloWorld)
    /\ This.m_onHeap
    /\ This.m_size = Len(Long) + Len(HelloWorld)
    /\ toString(This) = Long \o HelloWorld

(* C26: clear() on a buffer sets its size to 0 and leaves its capacity, its *)
(* storage kind and the block it owns as they were.                         *)
C26_Clearing ==
    Calls("clear") =>
        /\ After.m_size = 0
        /\ After.m_capacity = Before.m_capacity
        /\ After.m_onHeap = Before.m_onHeap
        /\ After.m_heapBuffer = Before.m_heapBuffer

C26_ClearKeepsCapacity == [][C26_Clearing]_vars

\* clear() has emptied a heap buffer of 600 bytes that held "Hello World"
C26_Witness ==
    /\ Called("clear")
    /\ This.m_size = 0
    /\ This.m_capacity = 600
    /\ This.m_onHeap
    /\ This.data = HelloWorld

(* C27: reserve( n ) leaves capacity >= n and >= the capacity before, and   *)
(* size and the live content as they were.                                  *)
C27_Reserving ==
    Calls("reserve") =>
        /\ After.m_capacity >= Max(frame'[Main].count, Before.m_capacity)
        /\ After.m_size = Before.m_size
        /\ toString(After) = toString(Before)

C27_ReserveMonotonic == [][C27_Reserving]_vars

\* reserve( 257 ) on a buffer of capacity 600 holding "Hello World"
C27_Witness ==
    /\ Called("reserve")
    /\ frame[Main].count = 257
    /\ This.m_capacity = 600
    /\ toString(This) = HelloWorld

\* the size a call needs the buffer to take: ensureCapacity's argument
Needed ==
    CASE Appends -> Before.m_size + Len(Appended)
      [] Calls("resize") \/ Calls("reserve") -> frame'[Main].count

(* C28: an append, push_back, resize or reserve that needs more than the    *)
(* capacity leaves the capacity at exactly the larger of what it needs and  *)
(* one and a half times the old capacity, rounded down; one that needs no   *)
(* more leaves the capacity as it was.                                      *)
C28_Growing ==
    Appends \/ Calls("resize") \/ Calls("reserve") =>
        After.m_capacity =
            IF Needed > Before.m_capacity
            THEN Max(Needed, (Before.m_capacity * 15) \div 10)
            ELSE Before.m_capacity

C28_GrowthPolicy == [][C28_Growing]_vars

\* push_back on a full buffer of capacity 257: 258 needed, 385 taken (385.5
\* rounded down)
C28_Witness ==
    /\ Called("push_back")
    /\ This.m_size = 258
    /\ This.m_capacity = 385

(* C29: resize( n ) sets size to n, with capacity >= n afterwards (a heap   *)
(* block is taken when n is above the capacity); when n is not above the    *)
(* old size, the content is the first n bytes of the old content.  "Hello   *)
(* World", resize( 20 ), resize( 5 ) gives size 20 and then "Hello".        *)
C29_Resizing ==
    Calls("resize") =>
        LET n == frame'[Main].count
        IN  /\ After.m_size = n
            /\ After.m_capacity >= n
            /\ n > Before.m_capacity => After.m_onHeap
            /\ n <= Before.m_size => toString(After) = SubSeq(toString(Before), 1, n)

C29_Resize == [][C29_Resizing]_vars

\* resize( 5 ) after resize( 20 ) on "Hello World": "Hello" is the content,
\* " World" and the nine bytes resize( 20 ) brought in lie behind it
C29_Witness ==
    /\ Called("resize")
    /\ frame[Main].count = 5
    /\ toString(This) = Hello
    /\ Len(This.data) = 20
    /\ SubSeq(This.data, 1, Len(HelloWorld)) = HelloWorld

(* C30: an append of an empty sequence or of a null const char*, on the     *)
(* buffer or through StringBuilder::append and operator<<, returns          *)
(* normally and leaves size, capacity, storage kind and content (every      *)
(* buffer, in fact) as they were.                                           *)
C30_Nothing ==
    /\ Calls("append") \/ Calls("StringBuilder::append")
    /\ Appended = <<>>
    => heap' = heap

C30_EmptyAppendIsNoOp == [][C30_Nothing]_vars

\* create().append( nullptr ) has returned and the buffer holds what it held
C30_Witness ==
    /\ Called("StringBuilder::append")
    /\ frame[Main].arg = nullptr
    /\ toString(This) = HelloWorld
    /\ This.m_capacity = STACK_BUFFER_SIZE
    /\ ~This.m_onHeap

\* the buffer a copy is made from
Source == heap[frame'[Main].other].buf
\* the buffers a call may change: the one it is made on and, for a move, the
\* one moved from
Touched ==
    {frame'[Main].ref} \cup (IF frame'[Main].op \in {"move", "moveAssign"}
                             THEN {frame'[Main].other} ELSE {})

(* C31: copy-constructing or copy-assigning B from A gives B the size and  *)
(* content of A and leaves A unchanged; and every later call on one buffer *)
(* (append, push_back, resize, reserve, clear, index write, assignment)    *)
(* leaves every other buffer as it was, inline or heap: no two buffers      *)
(* share storage.                                                          *)
C31_CopyIndependence ==
    [][/\ (Calls("copy") \/ (Calls("copyAssign") /\ frame'[Main].ref # frame'[Main].other))
          => /\ After.m_size = Source.m_size
             /\ toString(After) = toString(Source)
             /\ heap'[frame'[Main].other] = heap[frame'[Main].other]
       /\ pc'[Main] = "returned" /\ pc[Main] = "idle"
          => \A c \in Buf \ Touched : heap'[c] = heap[c]
       /\ \A b, c \in LiveBufs :
             b # c /\ heap[b].buf.block # NULL => heap[b].buf.block # heap[c].buf.block]_vars

\* a heap buffer holding "Hello World" was copied and the first byte of one of
\* the two overwritten: the other still reads "Hello World"
C31_Witness ==
    /\ Called("operator[]")
    /\ ghost.calls = 4
    /\ This.m_onHeap
    /\ toString(This) = <<"c">> \o Tail(HelloWorld)
    /\ \E c \in LiveBufs \ {frame[Main].ref} :
          /\ heap[c].buf.m_onHeap
          /\ toString(heap[c].buf) = HelloWorld

(* C32: when the allocation that growing a buffer needs fails during       *)
(* append, push_back, resize or reserve, std::bad_alloc reaches the caller *)
(* and the buffer, like every other buffer, is exactly as it was before    *)
(* the call: size, capacity, storage and bytes.                            *)
C32_FailedGrowthChangesNothing ==
    [][pc[Main] = "idle" /\ pc'[Main] = "threw"
          => /\ frame'[Main].op \in {"append", "push_back", "resize", "reserve"}
             /\ heap' = heap]_vars

\* an inline buffer holding 250 bytes was asked to append "Hello World", the
\* allocation failed and the caller has the exception
C32_Witness ==
    /\ pc[Main] = "threw"
    /\ frame[Main].op = "append"
    /\ frame[Main].arg = CStr(HelloWorld)
    /\ ~This.m_onHeap
    /\ This.m_capacity = STACK_BUFFER_SIZE
    /\ toString(This) = Long

(***************************************************************************)
(* Scenarios and the pool's tiers                                          *)
(***************************************************************************)
\* the buffer of lease l, before and after the step
BufferOf(l) == heap[leases[l].m_buffer].buf
BufferAfter(l) == heap'[leases[l].m_buffer].buf
\* the step is the k-th of the four appends on the buffer of lease l
AppendOf(l, k) ==
    /\ leases[l].st = "live"
    /\ leases[l].m_valid
    /\ leases'[l] = leases[l]
    /\ toString(BufferOf(l)) = Joined(k - 1)
    /\ BufferAfter(l) # BufferOf(l)
\* after the four appends toString() is "Hello, World!" and size() is n
GreetingSize(n) ==
    \A l \in Lease, k \in 1..Len(Pieces) :
        AppendOf(l, k) => /\ toString(BufferAfter(l)) = Joined(k)
                          /\ k = Len(Pieces) => BufferAfter(l).m_size = n

\* C33, as claimed: after acquiring a lease and appending "Hello", ", ",
\* "World", "!" in that order, toString() is "Hello, World!" and size() is 12.
C33_SizeTwelve == [][GreetingSize(12)]_vars

(* C33, amended: after acquiring a lease and appending "Hello", ", ",      *)
(* "World", "!" in that order, toString() is "Hello, World!" and size() is *)
(* 13, the number of characters of "Hello, World!".                        *)
C33_SizeThirteen == [][GreetingSize(13)]_vars

\* a lease whose buffer has had the four appends
C33_Witness ==
    \E l \in Lease :
        /\ leases[l].st = "live"
        /\ leases[l].m_valid
        /\ toString(BufferOf(l)) = Joined(4)
        /\ BufferOf(l).m_size = 13
        /\ ghost.acquires = 2

\* thread t is inside a = std::move( b ) with a and b different and both Active
Assigning(t) ==
    /\ pc[t] \in {"assign", "ret_lock", "ret_cs"}
    /\ frame[t].op = "assign"
    /\ frame[t].lease # frame[t].other
    /\ leases[frame[t].lease].m_valid
    /\ leases[frame[t].other].m_valid

(* C34: move-assigning lease B onto a different Active lease A releases    *)
(* A's previous buffer to the pool exactly once (one call of returnToPool, *)
(* after which the buffer is in a tier or deallocated); when the           *)
(* assignment returns A holds B's buffer and B is Disposed; B's buffer is  *)
(* not released by the assignment (it is in no tier, and still handed out  *)
(* once) and is unchanged throughout.                                      *)
C34_MoveAssignReleasesOnce ==
    [][\A t \in Threads :
          Assigning(t) =>
            LET A == frame[t].lease
                B == frame[t].other
                a == leases[A].m_buffer
                b == leases[B].m_buffer
            IN  /\ heap'[b] = heap[b]
                /\ heap[b].st = "live"
                /\ ghost'.outstanding[b] = 1
                /\ ~(\E u \in Threads : t_cachedBuffer'[u] = b) /\ b \notin Range(m_pool')
                /\ IF pc[t] = "assign" /\ pc'[t] # "assign"
                   THEN ghost.outstanding[a] = 1 /\ ghost'.outstanding[a] = 0
                   ELSE ghost'.outstanding[a] = ghost.outstanding[a]
                /\ pc'[t] = "idle" =>
                      /\ leases'[A] = StringBuilderLease(b)
                      /\ leases'[B] = Disposed
                      /\ \A l \in Lease \ {A, B} : leases'[l].m_buffer # b
                      /\ ghost'.outstanding[a] = 0
                      /\ \/ heap'[a].st = "freed"
                         \/ (\E u \in Threads : t_cachedBuffer'[u] = a)
                         \/ a \in Range(m_pool')]_vars

\* two leases were acquired, the second written to and move-assigned onto the
\* first: the first holds the second's buffer with its content, the second is
\* Disposed, and the first's previous buffer is in the thread's slot
C34_Witness ==
    /\ ghost.acquires = 2
    /\ \A t \in Threads : pc[t] = "idle"
    /\ \E A, B \in LiveLeases :
          /\ leases[B] = Disposed
          /\ leases[A].m_valid
          /\ toString(heap[leases[A].m_buffer].buf) = <<"a">>
          /\ ghost.outstanding[leases[A].m_buffer] = 1
          /\ \E a \in Buf \ {leases[A].m_buffer} :
                /\ ghost.outstanding[a] = 0
                /\ \E u \in Threads : t_cachedBuffer[u] = a

\* the last element of a sequence
Last(s) == s[Len(s)]

(* C35: the shared pool is LIFO: an acquire served from the shared pool    *)
(* returns the buffer most recently stored there among those still stored; *)
(* the older ones stay stored.                                             *)
C35_PoolIsLifo ==
    [][/\ Range(ghost.pushed) = Range(m_pool)
       /\ Len(ghost.pushed) = Len(m_pool)
       /\ \A t \in Threads :
             pc[t] = "get_cs" /\ pc'[t] = "idle" =>
               /\ ghost.pushed # <<>>
               /\ leases'[frame[t].lease].m_buffer = Last(ghost.pushed)
               /\ Range(m_pool') = Range(ghost.pushed) \ {Last(ghost.pushed)}]_vars

\* two buffers were stored in the shared pool and an acquire has been served
\* from it: nothing has been stored since, and one buffer is left
C35_Witness ==
    /\ m_stats.dynamicStringBufferPoolHits = 1
    /\ Len(m_pool) = 1
    /\ \A t \in Threads : pc[t] = "idle"
    /\ \E l \in ValidLeases : ~Stored(leases[l].m_buffer)

\* the places of a thread inside a critical section of m_mutex
Locked == {"get_cs", "ret_cs", "clear_cs", "size_cs", "teardown_cs"}
\* the mutex is held by exactly the thread that is inside a critical section
OneInside ==
    /\ \A t \in Threads : pc[t] \in Locked => m_mutex = t
    /\ m_mutex # NULL => pc[m_mutex] \in Locked

(* C36: every access to the shared pool's vector (the pop of an acquire,   *)
(* the push of a release, clear, size, the pool's destructor) is made by   *)
(* the thread holding m_mutex, inside its critical section; at most one    *)
(* thread is inside a critical section at any time.                        *)
C36_MutexDiscipline ==
    [][/\ OneInside
       /\ OneInside'
       /\ Cardinality({t \in Threads : pc[t] \in Locked}) <= 1
       /\ m_pool' # m_pool =>
             /\ m_mutex # NULL
             /\ pc'[m_mutex] # pc[m_mutex]
             /\ m_mutex' = NULL
       /\ \A t \in Threads :
             pc'[t] # pc[t] /\ frame'[t].op = "size" /\ pc'[t] = "returned" => m_mutex = t]_vars

\* the pool's destructor holds the mutex with a buffer still stored, while
\* another thread waits for the mutex inside an acquire or a release
C36_Witness ==
    /\ pc[Main] = "teardown_cs"
    /\ m_mutex = Main
    /\ m_pool # <<>>
    /\ \E u \in Threads \ {Main} : pc[u] \in {"get_lock", "ret_lock", "clear_lock"}

\* thread t takes the mutex in this step
Takes(t) == m_mutex # t /\ m_mutex' = t
\* the step is an acquire of t served from its slot
SlotHit(t) ==
    pc[t] = "get_slot" /\ t_cachedBuffer[t] # NULL /\ pc'[t] \notin {"get_slot", "ended"}
\* the step is a release of t into its empty slot
SlotRelease(t) == t_cachedBuffer[t] = NULL /\ t_cachedBuffer'[t] # NULL

\* a thread about to look at its occupied slot can take its step whoever
\* holds the mutex, and a thread waiting for the mutex inside an acquire has
\* an empty slot, inside a release an occupied one
FastPathFree ==
    \A t \in Threads :
        /\ pc[t] = "get_slot" => ENABLED get_slot(t)
        /\ pc[t] \in {"get_lock", "get_cs"} => t_cachedBuffer[t] = NULL
        /\ pc[t] \in {"ret_lock", "ret_cs"} => t_cachedBuffer[t] # NULL

(* C37: an acquire that hits the calling thread's slot and a release into  *)
(* the calling thread's empty slot never take m_mutex: each is one step    *)
(* that leaves the mutex and the shared pool as they are and returns,      *)
(* whoever holds the mutex at the time.                                    *)
C37_FastPathTakesNoLock ==
    /\ []FastPathFree
    /\ [][\A t \in Threads :
             /\ SlotHit(t) =>
                   /\ pc'[t] = "idle"
                   /\ leases'[frame[t].lease] = StringBuilderLease(t_cachedBuffer[t])
                   /\ t_cachedBuffer'[t] = NULL
                   /\ UNCHANGED <<m_mutex, m_pool>>
             /\ SlotRelease(t) =>
                   /\ pc[t] = "idle" /\ pc'[t] = "idle"
                   /\ UNCHANGED <<m_mutex, m_pool>>
             /\ Takes(t) => pc[t] \in {"get_lock", "ret_lock", "clear_lock", "idle", "exited"}]_vars

\* one thread is inside the critical section of size() while the other,
\* having released a buffer into its slot, holds the lease it was then served
\* from the slot
C37_Witness ==
    \E t \in Threads, u \in Threads :
        /\ t # u
        /\ m_mutex = u
        /\ pc[u] = "size_cs"
        /\ pc[t] = "idle"
        /\ m_stats.threadLocalHits = 1
        /\ m_stats.totalRequests = 2
        /\ t_cachedBuffer[t] = NULL
        /\ \E l \in ValidLeases : ghost.outstanding[leases[l].m_buffer] = 1

\* where a thread is between two calls, or back in its caller with a result
Outside == {"idle", "returned", "threw", "assigned", "exited"}

Positions(b) ==
    Cardinality({t \in Threads : t_cachedBuffer[t] = b})
      + Cardinality({i \in DOMAIN m_pool : m_pool[i] = b})

\* nothing refers to a buffer that is not a live object, nothing was deleted
\* twice, and no buffer is stored twice
NoDangling ==
    \A b \in Buf :
        /\ heap[b].st \in {"unalloc", "live", "freed"}
        /\ Positions(b) <= 1
        /\ heap[b].st # "live" =>
              /\ Positions(b) = 0
              /\ \A l \in ValidLeases : leases[l].m_buffer # b

\* thread t's get() returns in this step
Acquired(t) == pc[t] \in {"get_slot", "get_cs", "get_new"} /\ pc'[t] = "idle"

(* C39: no double free and no use after free.  In every reachable state,   *)
(* under every interleaving of acquires, releases, growth past the         *)
(* retained capacity, assignments, clears, thread exits and the pool's     *)
(* teardown: no buffer has been deleted twice; no buffer is in more than   *)
(* one place of the slots and the shared pool; a deallocated buffer is in  *)
(* no slot, not in the pool and held by no valid lease, it stays           *)
(* deallocated and untouched, and get() never returns it.                  *)
C39_NoDoubleFreeNoUseAfterFree ==
    /\ []NoDangling
    /\ [][/\ \A b \in Buf : heap[b].st = "freed" => heap'[b] = heap[b]
          /\ \A t \in Threads :
                Acquired(t) =>
                  LET b == leases'[frame[t].lease].m_buffer
                  IN  heap[b].st # "freed" /\ heap'[b].st = "live"]_vars

\* the program has ended with three buffers deallocated by three different
\* statements
C39_Witness ==
    /\ \A t \in Threads : pc[t] = "ended"
    /\ \A b \in Buf : heap[b].st = "freed"
    /\ Cardinality({heap[b].why : b \in Buf}) = Cardinality(Buf)

\* StringBuilderPool::clear() returns in thread t / a step of the pool's own
\* clear() in thread t / a step of get() in thread t
PublicClearReturns(t) ==
    pc[t] = "clear_cs" /\ frame[t].op = "clear" /\ pc'[t] = "idle"
InternalClearStep(t) ==
    /\ pc'[t] # pc[t]
    /\ frame[t].op = "clearedCount" \/ frame'[t].op = "clearedCount"
GetStep(t) ==
    /\ pc'[t] # pc[t]
    /\ pc[t] \in {"get_slot", "get_lock", "get_cs", "get_new"} \/ pc'[t] = "get_slot"

\* no get() has been in progress at any moment since the last reset began
Undisturbed == ~ghost.raced /\ ghost.acquires = 0 /\ InGet = {}

AllZero == \A c \in DOMAIN m_stats : m_stats[c] = 0

(* C40: StringBuilderPool::clear() also resets the four counters: when it  *)
(* returns, no acquire having run since it was called, threadLocalHits,    *)
(* dynamicStringBufferPoolHits, newAllocations and totalRequests are all   *)
(* 0, and they stay 0 until the next acquire, so that is what stats()      *)
(* reports; every step of the pool's own clear() leaves the counters as    *)
(* they are.                                                               *)
C40_PublicClearResetsCounters ==
    [][/\ \A t \in Threads :
            /\ PublicClearReturns(t) /\ Undisturbed => AllZero'
            /\ InternalClearStep(t) => m_stats' = m_stats
       /\ (AllZero /\ \A t \in Threads : ~GetStep(t)) => AllZero']_vars

\* the program has acquired, StringBuilderPool::clear() has deleted a buffer
\* and returned, and the counters are 0 while a lease from before is held
C40_Witness ==
    /\ \A t \in Threads : pc[t] = "idle"
    /\ Undisturbed
    /\ AllZero
    /\ ValidLeases # {}
    /\ \E b \in Buf : heap[b].st = "freed" /\ heap[b].why = "clear"

====
